---- MODULE Spec2Model ----
(***************************************************************************)
(* Model of the Bitcoin header-chain circuit of clementine                 *)
(* (circuits-lib/src/header_chain/mod.rs): header_chain_circuit and        *)
(* ChainState::apply_block_headers with the pure functions they call.      *)
(*                                                                         *)
(* Widths are scaled so that the arithmetic fits the model checker's       *)
(* integers: a 256-bit word is NBytes bytes of ByteBits bits each (32 and  *)
(* 8 in the program), a u32 is U32Bits wide (32 in the program).  Every    *)
(* formula of the program that mentions 32, 33, 256 or 263 is written in   *)
(* terms of these widths.  The exponent byte of a compact target keeps its *)
(* full range.                                                             *)
(***************************************************************************)
EXTENDS Integers, Sequences, FiniteSets, TLC

\* ------------------------------------------------------------------ bounds
ByteBits == 2
NBytes == 8
U32Bits == 24
\* headers accepted along one chain of proofs, and proofs along one chain
MaxChain == 2
MaxRuns == 2
MaxLeaves == 7
MaxBlocks == 2
MaxFeePayers == 2
MaxSyncerBlocks == 1
MaxSends == 1
\* the rounds a collateral chain is built for
MaxRound == 2
\* rows of deposit_signatures
MaxSigned == 2

\* --------------------------------------------------------------- constants
BLOCKS_PER_EPOCH == 2016
PREV_TIMESTAMPS == 11

RECURSIVE Pow(_, _)
Pow(b, e) == IF e = 0 THEN 1 ELSE b * Pow(b, e - 1)

Base == Pow(2, ByteBits)              \* values of one byte
Word == Pow(Base, NBytes)             \* 2^256 of the program
U256MAX == Word - 1
U32Mod == Pow(2, U32Bits)
U32MAX == U32Mod - 1
MantMod == Base * Base * Base         \* the three mantissa bytes of a compact target
PowBase == [e \in 0..NBytes |-> Pow(Base, e)]

\* result of a function call that panics
PANIC == 0 - 1

Networks == {"mainnet", "testnet4", "signet", "regtest"}
IS_REGTEST(net) == net = "regtest"
IS_TESTNET4(net) == net = "testnet4"

\* a byte of a program literal, scaled to the model's byte width
ScaleByte(b) == (b * Base) \div 256
\* the exponent of a program literal, moved with the word length
ScaleSize(s) == s - (32 - NBytes)

Compact(size, m1, m2, m3) == size * MantMod + m1 * Base * Base + m2 * Base + m3

\* NETWORK_CONSTANTS.max_bits: 0x1D00FFFF, 0x1E0377AE (signet), 0x207FFFFF (regtest).
\* The leading byte 0x03 of signet's mantissa is zero at this byte width, so the
\* literal is written as the compact form of the same target, one byte shorter.
MaxBits(net) ==
    CASE net = "signet" -> Compact(ScaleSize(30) - 1, ScaleByte(119), ScaleByte(174), 0)
      [] net = "regtest" -> Compact(ScaleSize(32), ScaleByte(127), ScaleByte(255), ScaleByte(255))
      [] OTHER -> Compact(ScaleSize(29), ScaleByte(0), ScaleByte(255), ScaleByte(255))

\* NETWORK_CONSTANTS.max_target_bytes: the literal byte arrays, big-endian
MaxTargetBytes(net) ==
    CASE net = "signet" ->
           [i \in 1..NBytes |-> CASE i = 3 -> ScaleByte(3) [] i = 4 -> ScaleByte(119)
                                  [] i = 5 -> ScaleByte(174) [] OTHER -> 0]
      [] net = "regtest" ->
           [i \in 1..NBytes |-> CASE i = 1 -> ScaleByte(127) [] i = 2 -> ScaleByte(255)
                                  [] i = 3 -> ScaleByte(255) [] OTHER -> 0]
      [] OTHER ->
           [i \in 1..NBytes |-> IF i \in {5, 6} THEN ScaleByte(255) ELSE 0]

\* EXPECTED_EPOCH_TIMESPAN: 60 * 60 * 24 * 14 seconds, 60 * 24 * 14 on signet.  The
\* unit of time is scaled with the word: in the program max_target * 4 * EXPECTED
\* stays below 2^256 (2^224 * 2^23), and so it does here
EXPECTED_EPOCH_TIMESPAN(net) ==
    IF net = "signet" THEN (60 * 24 * 14) \div 1260 ELSE (60 * 60 * 24 * 14) \div 18900

\* ------------------------------------------------------- U256 and byte arrays
\* U256::to_be_bytes / U256::from_be_bytes
ToBeBytes(n) == [i \in 1..NBytes |-> (n \div PowBase[NBytes - i]) % Base]

RECURSIVE FromBeBytesUpTo(_, _)
FromBeBytesUpTo(b, k) == IF k = 0 THEN 0 ELSE FromBeBytesUpTo(b, k - 1) * Base + b[k]
FromBeBytes(b) == FromBeBytesUpTo(b, NBytes)

MaxTarget(net) == FromBeBytes(MaxTargetBytes(net))

RECURSIVE BitLen(_)
BitLen(n) == IF n = 0 THEN 0 ELSE 1 + BitLen(n \div 2)

\* U256::wrapping_mul by shift-and-add, never leaving the word
RECURSIVE WrappingMul(_, _)
WrappingMul(a, b) ==
    IF b = 0 THEN 0
    ELSE LET half == WrappingMul(a, b \div 2)
             dbl == (2 * half) % Word
         IN IF b % 2 = 1 THEN (dbl + a) % Word ELSE dbl

WrappingAdd(a, b) == (a + b) % Word
SaturatingAdd(a, b) == IF a + b > U256MAX THEN U256MAX ELSE a + b

ZeroBytes == [i \in 1..NBytes |-> 0]

\* ------------------------------------------------------------ pure functions
\* bits_to_target: size = bits >> 24, mantissa = bits & 0x00ffffff; bits shifted
\* out of the word are lost
BitsToTarget(bits) ==
    LET size == bits \div MantMod
        mantissa == bits % MantMod
        target == IF size <= 3
                  THEN mantissa \div PowBase[3 - size]
                  ELSE IF size - 3 >= NBytes THEN 0
                  ELSE WrappingMul(PowBase[size - 3], mantissa)
    IN ToBeBytes(target)

\* an encoder that starts the mantissa at the first nonzero byte whatever its
\* top bit, which target_to_bits is not
TargetToBitsUnpadded(target) ==
    LET len == (BitLen(FromBeBytes(target)) + ByteBits - 1) \div ByteBits
        zeros == NBytes - len
    IN IF len < 3
       THEN PANIC
       ELSE Compact(len, target[zeros + 1], target[zeros + 2], target[zeros + 3])

\* target_to_bits: size = (263 - bits()) / 8; the three bytes at size-1, size,
\* size+1 (0-based) follow the exponent 33 - size.  An index outside the array
\* panics.
TargetToBits(target) ==
    LET target_bits == BitLen(FromBeBytes(target))
        size == ((NBytes * ByteBits + ByteBits - 1) - target_bits) \div ByteBits
    IN IF size - 1 < 0 \/ size + 1 > NBytes - 1
       THEN PANIC
       ELSE Compact((NBytes + 1) - size, target[size], target[size + 1], target[size + 2])

\* u32 subtraction: overflow checks panic, without them the result wraps
U32Sub(a, b, overflow_checks) ==
    IF a >= b THEN a - b
    ELSE IF overflow_checks THEN PANIC ELSE a - b + U32Mod

\* u32 addition: overflow checks panic, without them the result wraps
U32Add(a, b, overflow_checks) ==
    IF a + b <= U32MAX THEN a + b
    ELSE IF overflow_checks THEN PANIC ELSE a + b - U32Mod

ClampTimespan(actual_timespan, net) ==
    IF actual_timespan < EXPECTED_EPOCH_TIMESPAN(net) \div 4
    THEN EXPECTED_EPOCH_TIMESPAN(net) \div 4
    ELSE IF actual_timespan > EXPECTED_EPOCH_TIMESPAN(net) * 4
    THEN EXPECTED_EPOCH_TIMESPAN(net) * 4
    ELSE actual_timespan

\* calculate_new_difficulty: panicked when the u32 subtraction overflows under
\* overflow checks, otherwise the new target as bytes
CalculateNewDifficulty(epoch_start_time, last_timestamp, current_target, net, overflow_checks) ==
    LET diff == U32Sub(last_timestamp, epoch_start_time, overflow_checks)
        actual_timespan == ClampTimespan(diff, net)
        new_target == WrappingMul(FromBeBytes(BitsToTarget(current_target)), actual_timespan)
                          \div EXPECTED_EPOCH_TIMESPAN(net)
    IN IF diff = PANIC
       THEN [panicked |-> TRUE, target |-> ZeroBytes]
       ELSE [panicked |-> FALSE,
             target |-> IF new_target > MaxTarget(net)
                        THEN ToBeBytes(MaxTarget(net))
                        ELSE ToBeBytes(new_target)]

\* a comparison that reads the hash bytes in the digest's order
CheckHashUnreversed(hash, target_bytes) == FromBeBytes(hash) <= FromBeBytes(target_bytes)

\* a loop that never returns early: every byte of the reversed hash is at most
\* the byte of the target at its place
CheckHashBytewise(hash, target_bytes) ==
    \A i \in 0..(NBytes - 1) : hash[NBytes - i] <= target_bytes[i + 1]

\* check_hash_valid: the loop over i in 0..32 comparing hash[31 - i] with
\* target_bytes[i]; TRUE is a return, FALSE the panic "Hash is not valid"
RECURSIVE CheckHashValidFrom(_, _, _)
CheckHashValidFrom(hash, target_bytes, i) ==
    IF i >= NBytes THEN TRUE
    ELSE IF hash[NBytes - i] < target_bytes[i + 1] THEN TRUE
    ELSE IF hash[NBytes - i] > target_bytes[i + 1] THEN FALSE
    ELSE CheckHashValidFrom(hash, target_bytes, i + 1)

CheckHashValid(hash, target_bytes) == CheckHashValidFrom(hash, target_bytes, 0)

\* calculate_work: U256::MAX / (target saturating+ 1)
CalculateWork(target) ==
    LET target_plus_one == SaturatingAdd(FromBeBytes(target), 1)
    IN U256MAX \div target_plus_one

\* MINIMUM_WORK_TESTNET: 0x100010001, the work of the mainnet/testnet4 maximum target
MINIMUM_WORK_TESTNET == U256MAX \div (MaxTarget("testnet4") + 1)

\* sort_unstable of the 11 timestamps (insertion into a sorted sequence)
RECURSIVE InsertSorted(_, _)
InsertSorted(sorted, x) ==
    IF sorted = <<>> THEN <<x>>
    ELSE IF x <= Head(sorted) THEN <<x>> \o sorted
    ELSE <<Head(sorted)>> \o InsertSorted(Tail(sorted), x)

RECURSIVE SortUpTo(_, _)
SortUpTo(arr, k) == IF k = 0 THEN <<>> ELSE InsertSorted(SortUpTo(arr, k - 1), arr[k])

\* the 5th smallest in place of the 6th
MedianFifth(arr) == SortUpTo(arr, PREV_TIMESTAMPS)[5]

\* median: sorted_arr[5] (0-based)
Median(arr) == SortUpTo(arr, PREV_TIMESTAMPS)[6]

\* validate_timestamp
ValidateTimestamp(block_time, prev_11_timestamps) ==
    block_time > Median(prev_11_timestamps)

\* ------------------------------------------------------------------- hashing
\* SHA-256 is a library function.  A digest is modelled by a mixing function that
\* reads every byte it is given; bytes are produced in the digest's own order, so
\* that the proof-of-work comparison has to reverse them.
Reverse(b) == [i \in 1..NBytes |-> b[NBytes + 1 - i]]
MixIn(acc, x) == WrappingAdd(WrappingMul(acc, 3), (x + 1) % Word)

\* CircuitBlockHeader::compute_block_hash: version, prev_block_hash, merkle_root,
\* time, bits, nonce in this order
HeaderDigestBefore(block_header) ==
    MixIn(MixIn(0, block_header.version % Word), FromBeBytes(block_header.prev_block_hash))
HeaderDigestAfter(block_header) ==
    MixIn(MixIn(MixIn(0, block_header.time % Word), block_header.bits % Word),
          block_header.nonce % Word)
ComputeBlockHash(block_header) ==
    Reverse(ToBeBytes(WrappingAdd(WrappingAdd(HeaderDigestBefore(block_header),
                                              FromBeBytes(block_header.merkle_root)),
                                  WrappingMul(HeaderDigestAfter(block_header), 5))))

\* MMRGuest::append: the carry algorithm over the peaks
HashPair(left, right) ==
    ToBeBytes(MixIn(MixIn(1, FromBeBytes(left)), FromBeBytes(right)))

\* a carry that merges at most one pair
MMRCarryOnce(subroots, current, size) ==
    IF size % 2 = 1
    THEN Append(SubSeq(subroots, 1, Len(subroots) - 1),
                HashPair(subroots[Len(subroots)], current))
    ELSE Append(subroots, current)

RECURSIVE MMRCarry(_, _, _)
MMRCarry(subroots, current, size) ==
    IF size % 2 = 1
    THEN MMRCarry(SubSeq(subroots, 1, Len(subroots) - 1),
                  HashPair(subroots[Len(subroots)], current), size \div 2)
    ELSE Append(subroots, current)

MMRAppend(mmr, leaf) ==
    [subroots |-> MMRCarry(mmr.subroots, leaf, mmr.size), size |-> mmr.size + 1]

MMRNew == [subroots |-> <<>>, size |-> 0]

\* ChainState::new
ChainStateNew(net) ==
    [block_height |-> U32MAX,
     total_work |-> ZeroBytes,
     best_block_hash |-> ZeroBytes,
     current_target_bits |-> MaxBits(net),
     epoch_start_time |-> 0,
     prev_11_timestamps |-> [i \in 1..PREV_TIMESTAMPS |-> 0],
     block_hashes_mmr |-> MMRNew]

\* ChainState::to_hash: SHA-256 over the fields in this order, modelled as
\* injective on what it reads
ToHash(self) ==
    <<self.block_height, self.total_work, self.best_block_hash, self.current_target_bits,
      self.epoch_start_time, self.prev_11_timestamps, self.block_hashes_mmr.subroots,
      self.block_hashes_mmr.size>>

\* ------------------------------------------------- apply_block_headers, per header
\* the locals of apply_block_headers before the loop
InitLocals(self, net) ==
    [current_target_bytes |-> IF IS_REGTEST(net)
                              THEN ToBeBytes(MaxTarget(net))
                              ELSE BitsToTarget(self.current_target_bits),
     current_work |-> FromBeBytes(self.total_work),
     last_block_time |-> IF IS_TESTNET4(net)
                         THEN IF self.block_height = U32MAX
                              THEN 0
                              ELSE self.prev_11_timestamps[(self.block_height % PREV_TIMESTAMPS) + 1]
                         ELSE 0]

\* an addition that does not wrap
NextHeightUnwrapped(block_height) == block_height + 1

\* self.block_height.wrapping_add(1)
NextHeight(block_height) == (block_height + 1) % U32Mod

\* (target_to_use, expected_bits, work_to_add); self has the new height
NormalTarget(self, loc) ==
    [target_to_use |-> loc.current_target_bytes,
     expected_bits |-> self.current_target_bits,
     work_to_add |-> CalculateWork(loc.current_target_bytes),
     exception |-> FALSE,
     panicked |-> FALSE]

SelectTarget(self, loc, block_header, net, overflow_checks) ==
    IF IS_TESTNET4(net)
    THEN LET limit == U32Add(loc.last_block_time, 1200, overflow_checks)
         IN IF limit = PANIC
            THEN [NormalTarget(self, loc) EXCEPT !.panicked = TRUE]
            ELSE IF block_header.time > limit
                 THEN IF self.block_height % BLOCKS_PER_EPOCH = 0
                      THEN NormalTarget(self, loc)
                      ELSE [target_to_use |-> MaxTargetBytes(net),
                            expected_bits |-> MaxBits(net),
                            work_to_add |-> MINIMUM_WORK_TESTNET,
                            exception |-> TRUE,
                            panicked |-> FALSE]
                 ELSE NormalTarget(self, loc)
    ELSE NormalTarget(self, loc)

\* a loop that does not compare prev_block_hash
ContinuityUnchecked(self, block_header) == TRUE

\* assert_eq!(block_header.prev_block_hash, self.best_block_hash)
ContinuityOk(self, block_header) ==
    block_header.prev_block_hash = self.best_block_hash

\* a loop that does not compare bits
BitsUnchecked(net, expected_bits, block_header) == TRUE

\* the assert_eq! on block_header.bits
BitsOk(net, expected_bits, block_header) ==
    IF IS_REGTEST(net)
    THEN block_header.bits = MaxBits(net)
    ELSE block_header.bits = expected_bits

\* an update that takes every header for the first of an epoch
AcceptHeaderEveryBlock(self, block_header, new_block_hash, net) ==
    [self EXCEPT
       !.block_hashes_mmr = MMRAppend(@, new_block_hash),
       !.best_block_hash = new_block_hash,
       !.epoch_start_time = IF ~IS_REGTEST(net) THEN block_header.time ELSE @,
       !.prev_11_timestamps[(self.block_height % PREV_TIMESTAMPS) + 1] = block_header.time]

\* an update that writes the timestamp one slot further
AcceptHeaderNextSlot(self, block_header, new_block_hash, net) ==
    [self EXCEPT
       !.block_hashes_mmr = MMRAppend(@, new_block_hash),
       !.best_block_hash = new_block_hash,
       !.epoch_start_time = IF ~IS_REGTEST(net) /\ self.block_height % BLOCKS_PER_EPOCH = 0
                            THEN block_header.time
                            ELSE @,
       !.prev_11_timestamps[((self.block_height + 1) % PREV_TIMESTAMPS) + 1] = block_header.time]

\* the state updates after the checks, up to the write of the timestamp
AcceptHeader(self, block_header, new_block_hash, net) ==
    [self EXCEPT
       !.block_hashes_mmr = MMRAppend(@, new_block_hash),
       !.best_block_hash = new_block_hash,
       !.epoch_start_time = IF ~IS_REGTEST(net) /\ self.block_height % BLOCKS_PER_EPOCH = 0
                            THEN block_header.time
                            ELSE @,
       !.prev_11_timestamps[(self.block_height % PREV_TIMESTAMPS) + 1] = block_header.time]

\* a failed check that does not stop the loop
OutcomeContinues(ok, msg, self, loc, sel) ==
    [ok |-> TRUE, msg |-> "", self |-> self, loc |-> loc,
     target_to_use |-> sel.target_to_use, expected_bits |-> sel.expected_bits,
     work_to_add |-> sel.work_to_add, exception |-> sel.exception]

\* what one iteration leaves: ok, or the panic message of the failed assert
Outcome(ok, msg, self, loc, sel) ==
    [ok |-> ok, msg |-> msg, self |-> self, loc |-> loc,
     target_to_use |-> sel.target_to_use, expected_bits |-> sel.expected_bits,
     work_to_add |-> sel.work_to_add, exception |-> sel.exception]

\* the difficulty adjustment at the end of an epoch; current_target_bytes is
\* assigned before target_to_bits runs
Retarget(self, loc, block_header, sel, net, overflow_checks) ==
    LET nd == CalculateNewDifficulty(self.epoch_start_time, block_header.time,
                                     self.current_target_bits, net, overflow_checks)
        loc2 == [loc EXCEPT !.current_target_bytes = nd.target]
        new_bits == TargetToBits(nd.target)
    IN IF nd.panicked
       THEN Outcome(FALSE, "attempt to subtract with overflow", self, loc, sel)
       ELSE IF new_bits = PANIC
       THEN Outcome(FALSE, "index out of bounds", self, loc2, sel)
       ELSE Outcome(TRUE, "", [self EXCEPT !.current_target_bits = new_bits], loc2, sel)

\* one iteration of the loop over block_headers
ApplyOne(self0, loc, block_header, net, overflow_checks) ==
    LET self == [self0 EXCEPT !.block_height = NextHeight(@)]
        sel == SelectTarget(self, loc, block_header, net, overflow_checks)
        new_block_hash == ComputeBlockHash(block_header)
        accepted == AcceptHeader(self, block_header, new_block_hash, net)
        loc1 == [loc EXCEPT
                   !.current_work = WrappingAdd(@, sel.work_to_add),
                   !.last_block_time = IF IS_TESTNET4(net) THEN block_header.time ELSE @]
    IN IF sel.panicked
       THEN Outcome(FALSE, "attempt to add with overflow", self, loc, sel)
       ELSE IF ~ContinuityOk(self, block_header)
       THEN Outcome(FALSE, "Previous block hash does not match the best block hash", self, loc, sel)
       ELSE IF ~BitsOk(net, sel.expected_bits, block_header)
       THEN Outcome(FALSE, "Bits must match the expected bits", self, loc, sel)
       ELSE IF ~CheckHashValid(new_block_hash, sel.target_to_use)
       THEN Outcome(FALSE, "Hash is not valid", self, loc, sel)
       ELSE IF ~ValidateTimestamp(block_header.time, self.prev_11_timestamps)
       THEN Outcome(FALSE, "Timestamp is not valid", self, loc, sel)
       ELSE IF ~IS_REGTEST(net) /\ self.block_height % BLOCKS_PER_EPOCH = BLOCKS_PER_EPOCH - 1
       THEN Retarget(accepted, loc1, block_header, sel, net, overflow_checks)
       ELSE Outcome(TRUE, "", accepted, loc1, sel)

\* the whole of apply_block_headers on a vector of headers: the loop, then the
\* write of total_work
RECURSIVE ApplyLoop(_, _, _, _, _)
ApplyLoop(self, loc, block_headers, net, overflow_checks) ==
    IF block_headers = <<>>
    THEN [ok |-> TRUE, self |-> [self EXCEPT !.total_work = ToBeBytes(loc.current_work)]]
    ELSE LET r == ApplyOne(self, loc, Head(block_headers), net, overflow_checks)
         IN IF r.ok
            THEN ApplyLoop(r.self, r.loc, Tail(block_headers), net, overflow_checks)
            ELSE [ok |-> FALSE, self |-> r.self]

ApplyBlockHeaders(self, block_headers, net, overflow_checks) ==
    ApplyLoop(self, InitLocals(self, net), block_headers, net, overflow_checks)

\* ------------------------------------------------------------------- inputs
IMAGE_ID == "header-chain-guest"
MethodIds == {IMAGE_ID, "other-guest"}

RECURSIVE PopCount(_)
PopCount(n) == IF n = 0 THEN 0 ELSE (n % 2) + PopCount(n \div 2)

\* a chain state at the given height: timestamps rising by one per block, one
\* peak per set bit of the number of blocks
StateAtHeight(height, bits, total_work, epoch_start_time, first_time) ==
    [block_height |-> height,
     total_work |-> ToBeBytes(total_work),
     best_block_hash |-> Reverse(ToBeBytes(height % Word)),
     current_target_bits |-> bits,
     epoch_start_time |-> epoch_start_time,
     prev_11_timestamps |->
         [i \in 1..PREV_TIMESTAMPS |->
             first_time + (((i - 1) + PREV_TIMESTAMPS - ((height + 1) % PREV_TIMESTAMPS))
                             % PREV_TIMESTAMPS)],
     block_hashes_mmr |->
         [subroots |-> [k \in 1..PopCount(height + 1) |-> ToBeBytes((height + k) % Word)],
          size |-> height + 1]]

\* the state before the last header of an epoch
EpochEndState(net) ==
    StateAtHeight(BLOCKS_PER_EPOCH - 2, MaxBits(net), 1000, 100, 10)

\* a state in the middle of an epoch with the target Base^2 - 1 (0x0300FFFF in
\* the program) and a total work close to the end of the word
HardState(net) ==
    StateAtHeight(100, Compact(3, 0, Base - 1, Base - 1), U256MAX - CalculateWork(ToBeBytes(Base * Base - 1)), 10, 100)

\* a testnet4 state whose last blocks have times within 1200 seconds of u32::MAX
LateState(net) ==
    StateAtHeight(50, Compact(3, 0, Base - 1, Base - 1), 1000, 10, U32MAX - 15)

\* the states offered as Genesis(g)
GenesisStates(net) ==
    {ChainStateNew(net), EpochEndState(net), HardState(net)}
    \cup (IF IS_TESTNET4(net) THEN {LateState(net)} ELSE {})

\* values asked of the reversed block hash, around a target
GoalsAround(target) ==
    {g \in {target \div 2, target, target + 1} : g <= U256MAX}

\* a header with the given fields whose reversed hash equals goal: the miner
\* varies merkle_root
MineHeader(prev_block_hash, time, bits, goal) ==
    LET draft == [version |-> 1, prev_block_hash |-> prev_block_hash,
                  merkle_root |-> ZeroBytes, time |-> time, bits |-> bits, nonce |-> 0]
        rest == WrappingAdd(HeaderDigestBefore(draft), WrappingMul(HeaderDigestAfter(draft), 5))
    IN [draft EXCEPT !.merkle_root = ToBeBytes((goal + Word - rest) % Word)]

OtherHash == [i \in 1..NBytes |-> 1]

\* ----------------------------------------------------------------- the circuit
VARIABLES
    network,            \* BITCOIN_NETWORK the guest is built for
    overflow_checks,    \* whether the build panics on integer overflow
    pc,                 \* "idle", "applying" (inside the loop), "panicked"
    panic_msg,
    input_method_id,    \* input.method_id
    genesis_state_hash,
    chain_state,        \* the chain_state of header_chain_circuit
    loc,                \* current_target_bytes, current_work, last_block_time
    journal,            \* the outputs committed along this chain of proofs
    genesis,            \* history: the state given as Genesis(g)
    chain_headers,      \* history: the headers of the committed proofs
    batch,              \* history: the headers accepted by the running proof
    last,               \* history: what the last accepted header was checked against
    call,               \* a call of a pure function: its arguments and results
    mmr,                \* the guest and the native MMR fed the same leaves
    mgr,                \* the StateManager: its machines, height, block cache, owner
    proc,               \* the locals of a running process_block_parallel
    db,                 \* the state machines saved to the database
    twin,               \* history: the machines of a run that was never reloaded
    sender              \* the TxSender: its database rows, the node it talks to

header_vars == <<network, overflow_checks, pc, panic_msg, input_method_id,
                 genesis_state_hash, chain_state, loc, journal, genesis, chain_headers,
                 batch, last>>

\* what header_chain_circuit does not touch
state_vars == <<mgr, proc, db, twin>>

aside == <<call, mmr, state_vars, sender>>

vars == <<header_vars, aside>>

\* the locals of a run that has ended or not begun
NoLocals == [current_target_bytes |-> ZeroBytes, current_work |-> 0, last_block_time |-> 0]

NoLast == [height |-> 0, hash |-> ZeroBytes, target_to_use |-> ZeroBytes, expected_bits |-> 0,
           work_to_add |-> 0, exception |-> FALSE, before |-> ChainStateNew("mainnet"),
           work_before |-> 0, locals_before |-> NoLocals]
NoHash == <<>>

NoCall == [fn |-> "none"]

\* MMRNative::new: no level holds a node
NativeNew == [nodes |-> <<>>, leaves_count |-> 0]

NoLeaves == [leaves |-> <<>>, guest |-> MMRNew, native |-> NativeNew]

\* paramset.start_height
START_HEIGHT == 0

\* BlockCache::default
NoBlock == [block_height |-> 0, txs |-> {}, rounds_upto |-> 0 - 1, rtr_upto |-> 0 - 1]

\* StateManager::new before load_from_db
ManagerNew ==
    [round_machines |-> <<>>,
     last_processed_block_height |-> START_HEIGHT,
     cache |-> NoBlock,
     duties |-> {}]

NoProc ==
    [pc |-> "idle", final_round_machines |-> <<>>, round_futures |-> <<>>, iterations |-> 0,
     result |-> "none", unstable |-> <<>>, before |-> <<>>, blocks |-> 0,
     changed_last |-> {}, saved |-> <<>>]

NoDb == [saved |-> FALSE, block_height |-> 0, round_machines |-> <<>>, live |-> <<>>]

NoTwin == [active |-> FALSE, machines |-> <<>>]

\* TxSender::new over an empty database and a node that has no block yet
NoSender ==
    [fee_payer_txs |-> {}, utxos |-> {}, created |-> {}, blocks |-> <<>>, submitted |-> {},
     estimate |-> <<>>, fee_rate |-> <<>>, result |-> [fn |-> "none"], handler |-> "running",
     sends |-> 0]

StatesIdle ==
    /\ mgr = ManagerNew
    /\ proc = NoProc
    /\ db = NoDb
    /\ twin = NoTwin
    /\ sender = NoSender

HeaderInit ==
    /\ network \in Networks
    /\ overflow_checks \in BOOLEAN
    /\ pc = "idle"
    /\ panic_msg = ""
    /\ input_method_id = IMAGE_ID
    /\ genesis_state_hash = NoHash
    /\ chain_state = ChainStateNew(network)
    /\ loc = NoLocals
    /\ journal = <<>>
    /\ genesis = ChainStateNew(network)
    /\ chain_headers = <<>>
    /\ batch = <<>>
    /\ last = NoLast

Init ==
    /\ HeaderInit
    /\ call = NoCall
    /\ mmr = NoLeaves
    /\ StatesIdle

\* guest.verify(method_id, prev_proof): a receipt of the image method_id whose
\* journal is prev_proof exists; the receipts are those of this guest
Verify(method_id, prev_proof) ==
    /\ method_id = IMAGE_ID
    /\ \E k \in 1..Len(journal) : journal[k] = prev_proof

\* a circuit that hashes the chain state of the previous proof anew
RehashedGenesis(prev_proof) == ToHash(prev_proof.chain_state)

\* genesis_state_hash = prev_proof.genesis_state_hash
CarriedGenesisHash(prev_proof) == prev_proof.genesis_state_hash

\* a circuit that does not compare the method ids
MethodIdUnchecked(prev_proof, method_id) == TRUE

\* assert_eq!(prev_proof.method_id, input.method_id)
MethodIdOk(prev_proof, method_id) == prev_proof.method_id = method_id

\* the inputs offered with PrevProof(p), as pairs of p and input.method_id: the
\* last committed output with its own method id; before any header is proved,
\* also with each method id, and outputs that no receipt carries
PrevProofInputs ==
    LET base == IF journal = <<>>
                THEN [method_id |-> IMAGE_ID, genesis_state_hash |-> ToHash(genesis),
                      chain_state |-> genesis]
                ELSE journal[Len(journal)]
    IN {<<base, base.method_id>>}
       \cup (IF chain_headers = <<>>
             THEN {<<base, m>> : m \in MethodIds}
                  \cup {<<[base EXCEPT !.method_id = m], m>> : m \in MethodIds}
                  \cup {<<[base EXCEPT !.chain_state.total_work = ToBeBytes(U256MAX)],
                          base.method_id>>,
                        <<[base EXCEPT !.genesis_state_hash = ZeroBytes], base.method_id>>}
             ELSE {})

\* header_chain_circuit up to the call of apply_block_headers, Genesis(g); the run
\* depends on nothing proved before it, so it is taken before any proof exists
StartGenesis(g, method_id) ==
    /\ pc = "idle"
    /\ journal = <<>>
    /\ input_method_id' = method_id
    /\ genesis_state_hash' = ToHash(g)
    /\ chain_state' = g
    /\ loc' = InitLocals(g, network)
    /\ pc' = "applying"
    /\ panic_msg' = ""
    /\ journal' = <<>>
    /\ genesis' = g
    /\ chain_headers' = <<>>
    /\ batch' = <<>>
    /\ last' = NoLast
    /\ UNCHANGED <<network, overflow_checks>>
    /\ UNCHANGED aside

\* header_chain_circuit up to the call of apply_block_headers, PrevProof(p); a
\* panic ends the guest, so a run never follows a panicked one
StartPrevProof(prev_proof, method_id) ==
    /\ pc = "idle"
    /\ Len(journal) < MaxRuns
    /\ Len(chain_headers) < MaxChain
    /\ input_method_id' = method_id
    /\ batch' = <<>>
    /\ last' = NoLast
    /\ IF ~MethodIdOk(prev_proof, method_id)
       THEN /\ pc' = "panicked"
            /\ panic_msg' = "Method ID mismatch"
            /\ genesis_state_hash' = NoHash
            /\ chain_state' = ChainStateNew(network)
            /\ loc' = NoLocals
       ELSE IF ~Verify(method_id, prev_proof)
       THEN /\ pc' = "panicked"
            /\ panic_msg' = "verify failed"
            /\ genesis_state_hash' = NoHash
            /\ chain_state' = ChainStateNew(network)
            /\ loc' = NoLocals
       ELSE /\ pc' = "applying"
            /\ panic_msg' = ""
            /\ genesis_state_hash' = CarriedGenesisHash(prev_proof)
            /\ chain_state' = prev_proof.chain_state
            /\ loc' = InitLocals(prev_proof.chain_state, network)
    /\ UNCHANGED <<network, overflow_checks, journal, genesis, chain_headers>>
    /\ UNCHANGED aside

\* one iteration of the loop of apply_block_headers
ApplyHeader(block_header) ==
    /\ pc = "applying"
    /\ Len(chain_headers) + Len(batch) < MaxChain
    /\ LET r == ApplyOne(chain_state, loc, block_header, network, overflow_checks)
       IN /\ chain_state' = r.self
          /\ loc' = r.loc
          /\ IF r.ok
             THEN /\ pc' = "applying"
                  /\ panic_msg' = ""
                  /\ batch' = Append(batch, block_header)
                  /\ last' = [height |-> r.self.block_height,
                              hash |-> ComputeBlockHash(block_header),
                              target_to_use |-> r.target_to_use,
                              expected_bits |-> r.expected_bits,
                              work_to_add |-> r.work_to_add,
                              exception |-> r.exception,
                              before |-> chain_state,
                              work_before |-> loc.current_work,
                              locals_before |-> loc]
             ELSE /\ pc' = "panicked"
                  /\ panic_msg' = r.msg
                  /\ UNCHANGED <<batch, last>>
    /\ UNCHANGED <<network, overflow_checks, input_method_id, genesis_state_hash, journal,
                   genesis, chain_headers>>
    /\ UNCHANGED aside

\* the end of the loop: total_work is written and the output committed
Commit ==
    /\ pc = "applying"
    /\ chain_state' = [chain_state EXCEPT !.total_work = ToBeBytes(loc.current_work)]
    /\ journal' = Append(journal, [method_id |-> input_method_id,
                                   genesis_state_hash |-> genesis_state_hash,
                                   chain_state |-> chain_state'])
    /\ chain_headers' = chain_headers \o batch
    /\ batch' = <<>>
    /\ pc' = "idle"
    /\ loc' = NoLocals
    /\ last' = NoLast
    /\ UNCHANGED <<network, overflow_checks, panic_msg, input_method_id, genesis_state_hash,
                   genesis>>
    /\ UNCHANGED aside

\* the header times offered: the median (rejected) and the next second; for the
\* last header of an epoch a time before the epoch start and timespans below a
\* quarter of, within and above four times the expected one; on testnet4 a time
\* more than 20 minutes after the last block
HeaderTimes ==
    LET m == Median(chain_state.prev_11_timestamps)
        E == EXPECTED_EPOCH_TIMESPAN(network)
        s == chain_state.epoch_start_time
        offered ==
            IF /\ ~IS_REGTEST(network)
               /\ NextHeight(chain_state.block_height) % BLOCKS_PER_EPOCH = BLOCKS_PER_EPOCH - 1
            THEN {m, s - 1, s + (E \div 8), s + 7 * (E \div 8), s + 5 * E}
            ELSE {m, m + 1} \cup (IF IS_TESTNET4(network)
                                  THEN {loc.last_block_time + 1201}
                                  ELSE {})
    IN {t \in offered : 0 <= t /\ t <= U32MAX}

HeaderBits == {chain_state.current_target_bits, chain_state.current_target_bits + 1,
               MaxBits(network)}

\* the values asked of the reversed block hash of a header with the given time:
\* below, at and above the target carried by the loop; on testnet4, for a time
\* more than 20 minutes after the last block, at and above the maximum target
HeaderGoals(time) ==
    IF IS_TESTNET4(network) /\ time > loc.last_block_time + 1200
    THEN GoalsAround(MaxTarget(network)) \ {MaxTarget(network) \div 2}
    ELSE GoalsAround(FromBeBytes(loc.current_target_bytes))

\* the headers offered to the loop in the current state, none once MaxChain
\* headers are proved: every time and hash with the expected fields, and wrong
\* bits or a wrong previous hash with the times and hashes next to the limits
Headers ==
    LET m == Median(chain_state.prev_11_timestamps)
        t == FromBeBytes(loc.current_target_bytes)
        edge_times == {x \in HeaderTimes : x <= m + 1}
        edge_goals == {g \in GoalsAround(t) : g >= t}
    IN IF Len(chain_headers) + Len(batch) >= MaxChain THEN {} ELSE
       UNION {{MineHeader(chain_state.best_block_hash, time, bits, goal) :
                 bits \in {chain_state.current_target_bits} \cup
                          (IF IS_TESTNET4(network) THEN {MaxBits(network)} ELSE {}),
                 goal \in HeaderGoals(time)} : time \in HeaderTimes}
       \cup
       {MineHeader(chain_state.best_block_hash, time, bits, goal) :
            time \in edge_times, bits \in HeaderBits, goal \in edge_goals}
       \cup
       {MineHeader(OtherHash, time, bits, goal) :
            time \in edge_times,
            bits \in {chain_state.current_target_bits, chain_state.current_target_bits + 1},
            goal \in edge_goals}

\* the inputs offered with Genesis(g): a foreign method id only with the default state
GenesisInputs ==
    {<<g, IMAGE_ID>> : g \in GenesisStates(network)}
    \cup {<<ChainStateNew(network), "other-guest">>}

Next ==
    \/ pc = "idle" /\ journal = <<>> /\ \E in \in GenesisInputs : StartGenesis(in[1], in[2])
    \/ pc = "idle" /\ \E in \in PrevProofInputs : StartPrevProof(in[1], in[2])
    \/ pc = "applying" /\ \E h \in Headers : ApplyHeader(h)
    \/ Commit

Spec == Init /\ [][Next]_vars

\* ------------------------------------------------- calls of the pure functions
\* every compact value whose shift stays inside the word
CodecBits == {size * MantMod + mantissa : size \in 0..(NBytes + 2), mantissa \in 0..(MantMod - 1)}

CodecCalls == {[fn |-> "target_codec", stage |-> "bits", bits |-> b] : b \in CodecBits}

\* let target = bits_to_target(bits)
CallBitsToTarget ==
    /\ call.fn = "target_codec"
    /\ call.stage = "bits"
    /\ call' = [fn |-> "target_codec", stage |-> "target", bits |-> call.bits,
                target |-> BitsToTarget(call.bits)]
    /\ UNCHANGED <<header_vars, mmr, state_vars, sender>>

\* let back = target_to_bits(&target)
CallTargetToBits ==
    /\ call.fn = "target_codec"
    /\ call.stage = "target"
    /\ call' = [fn |-> "target_codec", stage |-> "back", bits |-> call.bits,
                target |-> call.target, back |-> TargetToBits(call.target)]
    /\ UNCHANGED <<header_vars, mmr, state_vars, sender>>

\* 256-bit values around the byte boundaries, the word's ends and a max_target
PowValues ==
    {0, 1, Base - 1, Base, Base + 1, Base * Base - 1, Base * Base, MaxTarget("mainnet") - 1,
     MaxTarget("mainnet"), MaxTarget("mainnet") + 1, Word \div 2, Word - Base, Word - 2,
     Word - 1}

\* the hash arrives in the digest's order, least significant byte first
PowCalls ==
    {[fn |-> "check_hash_valid", stage |-> "args", hash |-> Reverse(ToBeBytes(h)),
      target_a |-> ToBeBytes(a), target_b |-> ToBeBytes(b)] :
        h \in PowValues, a \in PowValues, b \in PowValues}

\* check_hash_valid(&hash, &target_a) and check_hash_valid(&hash, &target_b)
CallCheckHashValid ==
    /\ call.fn = "check_hash_valid"
    /\ call.stage = "args"
    /\ call' = [fn |-> "check_hash_valid", stage |-> "done", hash |-> call.hash,
                target_a |-> call.target_a, target_b |-> call.target_b,
                valid_a |-> CheckHashValid(call.hash, call.target_a),
                valid_b |-> CheckHashValid(call.hash, call.target_b)]
    /\ UNCHANGED <<header_vars, mmr, state_vars, sender>>

PureInit ==
    /\ HeaderInit
    /\ network = "mainnet"
    /\ overflow_checks = FALSE
    /\ call \in CodecCalls \cup PowCalls
    /\ mmr = NoLeaves
    /\ StatesIdle

PureNext ==
    \/ CallBitsToTarget
    \/ CallTargetToBits
    \/ CallCheckHashValid

SpecPure == PureInit /\ [][PureNext]_vars

\* ------------------------------------------------------ the two MMRs side by side
\* MMRNative::append: the leaf joins level 0; every level that now holds an even
\* number of nodes gives the hash of its last two to the level above
RECURSIVE NativeRecalculate(_, _)
NativeRecalculate(nodes, level) ==
    IF Len(nodes[level]) % 2 = 1 THEN nodes
    ELSE LET row == nodes[level]
             parent == HashPair(row[Len(row) - 1], row[Len(row)])
             above == IF level < Len(nodes)
                      THEN [nodes EXCEPT ![level + 1] = Append(@, parent)]
                      ELSE Append(nodes, <<parent>>)
         IN NativeRecalculate(above, level + 1)

NativeAppend(native, leaf) ==
    LET pushed == IF native.nodes = <<>> THEN << <<leaf>> >>
                  ELSE [native.nodes EXCEPT ![1] = Append(@, leaf)]
    IN [nodes |-> NativeRecalculate(pushed, 1), leaves_count |-> native.leaves_count + 1]

\* the peaks of the native MMR: the last node of every level of odd length
RECURSIVE NativePeaksFrom(_, _)
NativePeaksFrom(nodes, level) ==
    IF level = 0 THEN <<>>
    ELSE (IF Len(nodes[level]) % 2 = 1 THEN <<nodes[level][Len(nodes[level])]>> ELSE <<>>)
         \o NativePeaksFrom(nodes, level - 1)

\* the same walk from the leaves upward, the lowest peak first
RECURSIVE NativePeaksUpward(_, _)
NativePeaksUpward(nodes, level) ==
    IF level > Len(nodes) THEN <<>>
    ELSE (IF Len(nodes[level]) % 2 = 1 THEN <<nodes[level][Len(nodes[level])]>> ELSE <<>>)
         \o NativePeaksUpward(nodes, level + 1)

NativePeaksLowFirst(native) == NativePeaksUpward(native.nodes, 1)

\* highest rank first
NativePeaks(native) == NativePeaksFrom(native.nodes, Len(native.nodes))

\* the root: the peaks folded by SHA256(peak_hi || acc)
RECURSIVE FoldPeaks(_)
FoldPeaks(peaks) ==
    IF peaks = <<>> THEN ZeroBytes
    ELSE IF Len(peaks) = 1 THEN peaks[1]
    ELSE HashPair(peaks[1], FoldPeaks(Tail(peaks)))

GuestRoot(guest) == FoldPeaks(guest.subroots)

NativeRoot(native) == FoldPeaks(NativePeaks(native))

LeafHashes == {ToBeBytes(1), ToBeBytes(Word - 2)}

\* one block hash is appended to both
AppendLeaf(leaf) ==
    /\ Len(mmr.leaves) < MaxLeaves
    /\ mmr' = [leaves |-> Append(mmr.leaves, leaf),
               guest |-> MMRAppend(mmr.guest, leaf),
               native |-> NativeAppend(mmr.native, leaf)]
    /\ UNCHANGED <<header_vars, call, state_vars, sender>>

MMRInit ==
    /\ HeaderInit
    /\ network = "mainnet"
    /\ overflow_checks = FALSE
    /\ call = NoCall
    /\ mmr = NoLeaves
    /\ StatesIdle

MMRNext == \E leaf \in LeafHashes : AppendLeaf(leaf)

SpecMMR == MMRInit /\ [][MMRNext]_vars

\* ------------------------------------------------------------- the state manager
\* the operators whose round machines the manager holds
Operators == {0, 1}

\* ProtocolParamset::num_kickoffs_per_round
NUM_KICKOFFS_PER_ROUND == 2

\* the literal of `if iterations > 500`
ITERATION_LIMIT == 500

\* transactions of the collateral chain, named by what they are
Tx(type, operator_idx, round_idx, kickoff_idx) ==
    [type |-> type, operator_idx |-> operator_idx, round_idx |-> round_idx,
     kickoff_idx |-> kickoff_idx]

RoundTxid(op, idx) == Tx("Round", op, idx, 0)

ReadyToReimburseTxid(op, idx) == Tx("ReadyToReimburse", op, idx, 0)

KickoffTxid(op, idx, k) == Tx("Kickoff", op, idx, k)

AllZeros == Tx("none", 0, 0, 0)

OutPoint(txid, vout) == [txid |-> txid, vout |-> vout]

\* operator_data.collateral_funding_outpoint
CollateralFundingOutpoint(op) == OutPoint(Tx("Funding", op, 0, 0), 0)

SentTx(txid) == [kind |-> "SentTx", outpoint |-> OutPoint(txid, 0)]

SpentUtxo(outpoint) == [kind |-> "SpentUtxo", outpoint |-> outpoint]

RoundSent(round_idx) == [type |-> "RoundSent", idx |-> round_idx]

ReadyToReimburseSent(round_idx) == [type |-> "ReadyToReimburseSent", idx |-> round_idx]

KickoffUtxoUsed(kickoff_idx) == [type |-> "KickoffUtxoUsed", idx |-> kickoff_idx]

SavedToDb == [type |-> "SavedToDb", idx |-> 0]

\* a block: the transactions listed, and of operator 0 every Round up to
\* rounds_upto and every ReadyToReimburse up to rtr_upto
Contains(block, tx) ==
    \/ tx \in block.txs
    \/ /\ tx.operator_idx = 0
       /\ \/ tx.type = "Round" /\ tx.round_idx <= block.rounds_upto
          \/ tx.type = "ReadyToReimburse" /\ tx.round_idx <= block.rtr_upto

\* the transaction of the chain that spends an outpoint a matcher watches
Spender(outpoint) ==
    IF outpoint.txid.type = "Funding"
    THEN RoundTxid(outpoint.txid.operator_idx, 0)
    ELSE KickoffTxid(outpoint.txid.operator_idx, outpoint.txid.round_idx, outpoint.vout)

\* Matcher::matches
Matches(matcher, block) ==
    IF matcher.kind = "SentTx"
    THEN Contains(block, matcher.outpoint.txid)
    ELSE Contains(block, Spender(matcher.outpoint))

InitialCollateral == [name |-> "InitialCollateral", round_idx |-> 0, used_kickoffs |-> {}]

RoundTx(round_idx, used_kickoffs) ==
    [name |-> "RoundTx", round_idx |-> round_idx, used_kickoffs |-> used_kickoffs]

ReadyToReimburse(round_idx) ==
    [name |-> "ReadyToReimburse", round_idx |-> round_idx, used_kickoffs |-> {}]

\* RoundStateMachine::new
RoundStateMachineNew(operator_idx) ==
    [operator_idx |-> operator_idx,
     state |-> InitialCollateral,
     matchers |-> {},
     current_txid |-> AllZeros,
     dirty |-> FALSE]

\* on_initial_collateral_entry
OnInitialCollateralEntry(m) ==
    [m EXCEPT !.matchers =
        {<<SpentUtxo(CollateralFundingOutpoint(m.operator_idx)), RoundSent(0)>>}]

\* Owner::create_txhandlers, called without an argument: the handlers of the
\* round the machine is in
OwnerCreateTxhandlers(m) ==
    [Round |-> RoundTxid(m.operator_idx, m.state.round_idx),
     ReadyToReimburse |-> ReadyToReimburseTxid(m.operator_idx, m.state.round_idx)]

\* on_round_tx_entry
OnRoundTxEntry(m) ==
    LET round_idx == m.state.round_idx
        txhandlers == OwnerCreateTxhandlers(m)
    IN [m EXCEPT
          !.matchers =
              {<<SentTx(txhandlers.ReadyToReimburse), ReadyToReimburseSent(round_idx)>>}
              \cup {<<SpentUtxo(OutPoint(txhandlers.Round, idx)), KickoffUtxoUsed(idx)>> :
                      idx \in 1..NUM_KICKOFFS_PER_ROUND},
          !.current_txid = txhandlers.Round]

\* an entry that installs the matcher of the round being left
OnReadyToReimburseEntrySameRound(m) ==
    LET round_idx == m.state.round_idx
    IN [m EXCEPT
          !.matchers = {<<SentTx(RoundTxid(m.operator_idx, round_idx)), RoundSent(round_idx)>>},
          !.current_txid = ReadyToReimburseTxid(m.operator_idx, round_idx)]

\* on_ready_to_reimburse_entry: the owner is asked twice, the same way; the
\* first answer gives current_txid, the Round of the second the matcher
OnReadyToReimburseEntry(m) ==
    LET round_idx == m.state.round_idx
        txhandlers == OwnerCreateTxhandlers(m)
        next_round_txhandlers == OwnerCreateTxhandlers(m)
    IN [m EXCEPT
          !.matchers = {<<SentTx(next_round_txhandlers.Round), RoundSent(round_idx + 1)>>},
          !.current_txid = txhandlers.ReadyToReimburse]

\* the entry action of the state a machine is in
Enter(m) ==
    CASE m.state.name = "InitialCollateral" -> OnInitialCollateralEntry(m)
      [] m.state.name = "RoundTx" -> OnRoundTxEntry(m)
      [] OTHER -> OnReadyToReimburseEntry(m)

\* on_round_tx_exit: the duty handed to the owner
OnRoundTxExit(m) ==
    {[duty |-> "NewReadyToReimburse",
      round_idx |-> m.state.round_idx,
      used_kickoffs |-> m.state.used_kickoffs,
      operator_idx |-> m.operator_idx]}

\* a transition whose on_transition leaves the flag alone
TransitionKeepsFlag(m, target) ==
    [machine |-> Enter([m EXCEPT !.state = target]),
     duties |-> IF m.state.name = "RoundTx" THEN OnRoundTxExit(m) ELSE {}]

\* Transition(target): the exit action of the state left, the entry action of
\* the target, then on_transition, which sets dirty
Transition(m, target) ==
    [machine |-> [Enter([m EXCEPT !.state = target]) EXCEPT !.dirty = TRUE],
     duties |-> IF m.state.name = "RoundTx" THEN OnRoundTxExit(m) ELSE {}]

Stay(m) == [machine |-> m, duties |-> {}]

\* the state handlers initial_collateral, round_tx and ready_to_reimburse; an
\* event a state does not name goes to Super and changes nothing
Handle(m, event) ==
    CASE m.state.name = "InitialCollateral" ->
           IF event.type = "RoundSent"
           THEN Transition(m, RoundTx(event.idx, {}))
           ELSE Stay(m)
      [] m.state.name = "RoundTx" ->
           IF event.type = "KickoffUtxoUsed"
           THEN Stay([m EXCEPT !.state.used_kickoffs = @ \cup {event.idx}])
           ELSE IF event.type = "ReadyToReimburseSent"
           THEN Transition(m, ReadyToReimburse(event.idx))
           ELSE Stay(m)
      [] OTHER ->
           IF event.type = "RoundSent"
           THEN Transition(m, RoundTx(event.idx, {}))
           ELSE Stay(m)

\* for event in events { handle_with_context(&event) }
RECURSIVE HandleAll(_, _)
HandleAll(m, events) ==
    IF events = <<>> THEN Stay(m)
    ELSE LET first == Handle(m, Head(events))
             rest == HandleAll(first.machine, Tail(events))
         IN [machine |-> rest.machine, duties |-> first.duties \cup rest.duties]

\* match_block: the events of the matchers that match
MatchedEvents(m, block) == {pair[2] : pair \in {q \in m.matchers : Matches(q[1], block)}}

\* the matchers are a HashMap: its iterator yields them in any order
RECURSIVE Orders(_)
Orders(events) ==
    IF events = {} THEN {<<>>}
    ELSE UNION {{<<e>> \o rest : rest \in Orders(events \ {e})} : e \in events}

\* update_machines: every machine is matched against the block; one without
\* events is kept as it is, one with events becomes a future holding them in the
\* order its matchers were visited
RECURSIVE UpdateMachines(_, _)
UpdateMachines(machines, block) ==
    IF machines = <<>> THEN {[unchanged |-> <<>>, futures |-> <<>>]}
    ELSE LET m == Head(machines)
             events == MatchedEvents(m, block)
         IN {IF events = {}
             THEN [unchanged |-> <<m>> \o r.unchanged, futures |-> r.futures]
             ELSE [unchanged |-> r.unchanged,
                   futures |-> <<[machine |-> m, events |-> o, done |-> FALSE,
                                  from |-> m]>> \o r.futures] :
               r \in UpdateMachines(Tail(machines), block), o \in Orders(events)}

Max(a, b) == IF a >= b THEN a ELSE b

\* a return that sets the machines back and leaves the height as it was
ReturnedKeepHeight(final_round_machines) ==
    [mgr EXCEPT !.round_machines = final_round_machines]

\* the end of process_block_parallel: the machines are set back
Returned(final_round_machines) ==
    [mgr EXCEPT !.round_machines = final_round_machines,
                !.last_processed_block_height = Max(mgr.cache.block_height, @)]

\* serde_json::to_string(machine): the state and the fields but the matchers
ToJson(m) ==
    [state |-> m.state, operator_idx |-> m.operator_idx, current_txid |-> m.current_txid,
     dirty |-> m.dirty]

\* serde_json::from_str
FromJson(json) ==
    [operator_idx |-> json.operator_idx, state |-> json.state, matchers |-> {},
     current_txid |-> json.current_txid, dirty |-> json.dirty]

\* an initialisation that runs no entry action
InitWithoutEntry(uninitialized) == uninitialized

\* init_with_context: the entry action of the state the machine is in
InitWithContext(uninitialized) == Enter(uninitialized)

\* a run of one machine over a block with its events in a fixed order, the
\* kickoffs first
Canon(events) ==
    CHOOSE o \in Orders(events) :
        \A i, j \in 1..Len(o) :
            i < j => \/ o[i].type = "KickoffUtxoUsed" /\ o[j].type # "KickoffUtxoUsed"
                     \/ o[i].type = o[j].type /\ o[i].idx < o[j].idx

\* a machine its events bring back to a state it was in during the call is
\* matched again and again, up to the iteration check
RECURSIVE RefRun(_, _, _, _)
RefRun(m, block, passes, seen) ==
    LET events == MatchedEvents(m, block)
        next == HandleAll(m, Canon(events)).machine
    IN IF events = {} \/ passes > ITERATION_LIMIT + 1
       THEN [machine |-> m, passes |-> passes]
       ELSE IF next \in seen \cup {m}
       THEN [machine |-> m, passes |-> ITERATION_LIMIT + 2]
       ELSE RefRun(next, block, passes + 1, seen \cup {m})

\* process_block_parallel as a function of the machines and the block
ProcessRef(machines, block) ==
    LET runs == [i \in 1..Len(machines) |-> RefRun(machines[i], block, 0, {})]
    IN IF \E i \in 1..Len(machines) : runs[i].passes > ITERATION_LIMIT + 1
       THEN <<>>
       ELSE [i \in 1..Len(machines) |-> runs[i].machine]

\* the transactions a block may hold for a machine: none, the next one of its
\* chain, the next two, a kickoff together with the transaction ending the round
OptionsFor(m) ==
    LET op == m.operator_idx
        idx == m.state.round_idx
    IN CASE m.state.name = "InitialCollateral" ->
              {{}, {RoundTxid(op, 0)}, {RoundTxid(op, 0), ReadyToReimburseTxid(op, 0)}}
         [] m.state.name = "RoundTx" ->
              {{}, {ReadyToReimburseTxid(op, idx)},
               {KickoffTxid(op, idx, 1), ReadyToReimburseTxid(op, idx)}}
              \cup (IF op = 0
                    THEN {{KickoffTxid(op, idx, 1), KickoffTxid(op, idx, 2),
                           ReadyToReimburseTxid(op, idx), RoundTxid(op, idx + 1)}}
                    ELSE {})
         [] OTHER -> {{}, {RoundTxid(op, idx + 1)}}

RECURSIVE TxChoices(_)
TxChoices(machines) ==
    IF machines = <<>> THEN {{}}
    ELSE {a \cup b : a \in OptionsFor(Head(machines)), b \in TxChoices(Tail(machines))}

\* a first block that holds a long run of operator 0's rounds: as many
\* transitions as the iteration limit, one more, and two more
LongBlocks ==
    IF /\ mgr.last_processed_block_height = START_HEIGHT
       /\ ~db.saved
       /\ \E i \in 1..Len(mgr.round_machines) :
             /\ mgr.round_machines[i].operator_idx = 0
             /\ mgr.round_machines[i].state.name = "InitialCollateral"
    THEN LET half == ITERATION_LIMIT \div 2
         IN {[txs |-> {}, rounds_upto |-> half - 2, rtr_upto |-> half - 1],
             [txs |-> {}, rounds_upto |-> half - 1, rtr_upto |-> half - 1],
             [txs |-> {}, rounds_upto |-> half - 1, rtr_upto |-> half]}
    ELSE {}

\* a block in which a kickoff connector of operator 0's round is spent and the
\* round is not ended, offered to a manager holding that machine alone
KickoffBlocks ==
    IF Len(mgr.round_machines) # 1 THEN {}
    ELSE LET m == mgr.round_machines[1]
             idx == m.state.round_idx
         IN {[txs |-> t, rounds_upto |-> 0 - 1, rtr_upto |-> 0 - 1] :
               t \in CASE m.operator_idx # 0 -> {}
                       [] m.state.name = "RoundTx" -> {{KickoffTxid(0, idx, 1)}}
                       [] m.state.name = "ReadyToReimburse" ->
                            {{RoundTxid(0, idx + 1), KickoffTxid(0, idx + 1, 2)}}
                       [] OTHER -> {}}

\* a first block that holds the first round transaction of operator 1, whose
\* machine the manager, holding operator 0's alone, is given afterwards
NewcomerBlocks ==
    IF /\ mgr.last_processed_block_height = START_HEIGHT
       /\ ~db.saved
       /\ Len(mgr.round_machines) = 1
       /\ mgr.round_machines[1].operator_idx = 0
    THEN {[txs |-> {RoundTxid(1, 0)} \cup t, rounds_upto |-> 0 - 1, rtr_upto |-> 0 - 1] :
            t \in {{}, {RoundTxid(0, 0)}, {ReadyToReimburseTxid(1, 0)}}}
    ELSE {}

Blocks ==
    {[block_height |-> mgr.last_processed_block_height + 1, txs |-> b.txs,
      rounds_upto |-> b.rounds_upto, rtr_upto |-> b.rtr_upto] :
        b \in {[txs |-> t, rounds_upto |-> 0 - 1, rtr_upto |-> 0 - 1] :
                 t \in TxChoices(mgr.round_machines)}
               \cup LongBlocks \cup KickoffBlocks \cup NewcomerBlocks}

\* process_and_add_new_states_from_height with one new round machine: the
\* machines held are set aside, the blocks from start_height up to the last
\* processed one are processed again with the new machine alone, and the machines
\* set aside are appended; a start height above the last processed one replays
\* no block
AddNewStates(operator_idx, start_height) ==
    /\ proc.pc = "idle"
    /\ \A i \in 1..Len(mgr.round_machines) : mgr.round_machines[i].operator_idx # operator_idx
    /\ LET new == Enter(RoundStateMachineNew(operator_idx))
           saved_round_machines == mgr.round_machines
       IN IF start_height > mgr.last_processed_block_height
          THEN /\ proc.result = "none"
               /\ mgr' = [mgr EXCEPT !.round_machines = <<new>> \o saved_round_machines]
               /\ twin' = IF twin.active THEN [twin EXCEPT !.machines = <<new>> \o @]
                          ELSE twin
               /\ proc' = proc
          ELSE /\ proc.result = "Ok"
               /\ ~db.saved
               /\ start_height = mgr.cache.block_height
               /\ \E u \in UpdateMachines(<<new>>, mgr.cache) :
                     IF u.futures = <<>>
                     THEN /\ mgr' = [mgr EXCEPT !.round_machines =
                                                  u.unchanged \o saved_round_machines]
                          /\ proc' = [NoProc EXCEPT !.result = "Ok", !.before = <<new>>,
                                                    !.blocks = proc.blocks,
                                                    !.saved = saved_round_machines]
                     ELSE /\ mgr' = [mgr EXCEPT !.round_machines = <<>>]
                          /\ proc' = [NoProc EXCEPT !.pc = "running",
                                                    !.round_futures = u.futures,
                                                    !.before = <<new>>,
                                                    !.blocks = proc.blocks,
                                                    !.saved = saved_round_machines]
               /\ twin' = twin
    /\ UNCHANGED db
    /\ UNCHANGED <<header_vars, call, mmr, sender>>

\* update_block_cache and process_block_parallel up to its loop
ProcessBlockParallel(block) ==
    /\ proc.pc = "idle"
    /\ proc.blocks < MaxBlocks
    /\ \E u \in UpdateMachines(mgr.round_machines, block) :
          LET cached == [mgr EXCEPT !.cache = block]
          IN IF u.futures = <<>>
             THEN /\ mgr' = [cached EXCEPT
                               !.round_machines = u.unchanged,
                               !.last_processed_block_height = Max(block.block_height, @)]
                  /\ proc' = [NoProc EXCEPT !.result = "Ok", !.before = mgr.round_machines,
                                            !.blocks = proc.blocks + 1]
             ELSE /\ mgr' = [cached EXCEPT !.round_machines = <<>>]
                  /\ proc' = [pc |-> "running", final_round_machines |-> u.unchanged,
                              round_futures |-> u.futures, iterations |-> 0,
                              result |-> "none", unstable |-> <<>>,
                              before |-> mgr.round_machines, blocks |-> proc.blocks + 1,
                              changed_last |-> {}, saved |-> <<>>]
    /\ twin' = IF twin.active
               THEN [twin EXCEPT !.machines = ProcessRef(@, block)]
               ELSE twin
    /\ UNCHANGED db
    /\ UNCHANGED <<header_vars, call, mmr, sender>>

\* one of the futures joined by join_all runs: the machine handles its events
RunFuture(i) ==
    /\ proc.pc = "running"
    /\ i \in 1..Len(proc.round_futures)
    /\ ~proc.round_futures[i].done
    /\ LET future == proc.round_futures[i]
           r == HandleAll(future.machine, future.events)
       IN /\ proc' = [proc EXCEPT !.round_futures[i] =
                         [machine |-> r.machine, events |-> future.events, done |-> TRUE,
                          from |-> future.machine]]
          /\ mgr' = [mgr EXCEPT !.duties = @ \cup r.duties]
    /\ UNCHANGED <<db, twin>>
    /\ UNCHANGED <<header_vars, call, mmr, sender>>

\* the rest of the loop body once every future has completed: the iteration
\* check, the changed machines matched again, and the return when none has events
Join ==
    /\ proc.pc = "running"
    /\ \A i \in 1..Len(proc.round_futures) : proc.round_futures[i].done
    /\ LET changed_round_machines ==
               [i \in 1..Len(proc.round_futures) |-> proc.round_futures[i].machine]
       IN IF proc.iterations > ITERATION_LIMIT
          THEN /\ proc' = [proc EXCEPT
                             !.pc = "idle",
                             !.result = "NotStabilized",
                             !.round_futures = <<>>,
                             !.unstable = [i \in 1..Len(changed_round_machines) |->
                                             changed_round_machines[i].state]]
               /\ mgr' = mgr
          ELSE \E u \in UpdateMachines(changed_round_machines, mgr.cache) :
                 LET final == proc.final_round_machines \o u.unchanged
                 IN IF u.futures = <<>>
                    THEN /\ mgr' = [Returned(final) EXCEPT !.round_machines = @ \o proc.saved]
                         /\ proc' = [proc EXCEPT !.pc = "idle", !.result = "Ok",
                                                 !.final_round_machines = final,
                                                 !.round_futures = <<>>,
                                                 !.iterations = @ + 1]
                    ELSE /\ mgr' = mgr
                         /\ proc' = [proc EXCEPT
                                       !.final_round_machines = final,
                                       !.round_futures = u.futures,
                                       !.iterations = @ + 1,
                                       !.changed_last =
                                           {proc.round_futures[i].machine.operator_idx :
                                              i \in {j \in 1..Len(proc.round_futures) :
                                                       proc.round_futures[j].machine
                                                         # proc.round_futures[j].from}}]
    /\ UNCHANGED <<db, twin>>
    /\ UNCHANGED <<header_vars, call, mmr, sender>>

\* save_state_to_db: every machine is serialised and saved, then the dirty ones
\* are handed SavedToDb
SaveStateToDb ==
    /\ proc.pc = "idle"
    /\ ~db.saved
    /\ mgr.round_machines # <<>>
    /\ db' = [saved |-> TRUE,
              block_height |-> mgr.last_processed_block_height,
              round_machines |-> [i \in 1..Len(mgr.round_machines) |->
                                    ToJson(mgr.round_machines[i])],
              live |-> mgr.round_machines]
    /\ mgr' = [mgr EXCEPT !.round_machines =
                 [i \in 1..Len(@) |-> IF @[i].dirty THEN Handle(@[i], SavedToDb).machine
                                      ELSE @[i]]]
    /\ UNCHANGED <<proc, twin>>
    /\ UNCHANGED <<header_vars, call, mmr, sender>>

\* a restart: StateManager::new and its load_from_db
LoadFromDb ==
    /\ proc.pc = "idle"
    /\ db.saved
    /\ ~twin.active
    /\ mgr' = [ManagerNew EXCEPT !.round_machines =
                 [i \in 1..Len(db.round_machines) |->
                    InitWithContext(FromJson(db.round_machines[i]))]]
    /\ proc' = [NoProc EXCEPT !.blocks = proc.blocks]
    /\ twin' = [active |-> TRUE, machines |-> db.live]
    /\ UNCHANGED db
    /\ UNCHANGED <<header_vars, call, mmr, sender>>

StatesInit ==
    /\ HeaderInit
    /\ network = "mainnet"
    /\ overflow_checks = FALSE
    /\ call = NoCall
    /\ mmr = NoLeaves
    /\ StatesIdle

StatesNext ==
    \/ \E operator_idx \in Operators :
          \E start_height \in {mgr.last_processed_block_height,
                                mgr.last_processed_block_height + 1} :
             AddNewStates(operator_idx, start_height)
    \/ \E block \in Blocks : ProcessBlockParallel(block)
    \/ \E i \in 1..Len(proc.round_futures) : RunFuture(i)
    \/ Join
    \/ SaveStateToDb
    \/ LoadFromDb

SpecStates == StatesInit /\ [][StatesNext]_vars

\* ------------------------------------------------------------------ the tx sender
\* constants.rs ANCHOR_AMOUNT
ANCHOR_AMOUNT == 240

\* the literal of `let child_tx_size = Amount::from_sat(300)`
CHILD_TX_SIZE == 300

\* the Amount::from_sat(1) get_fee_rate falls back to
FALLBACK_FEE_RATE == 1

RECURSIVE Total(_)
Total(amounts) == IF amounts = <<>> THEN 0 ELSE Head(amounts) + Total(Tail(amounts))

\* builder::script::anchor_output: ScriptBuf::from_hex("51024e73"), four bytes
AnchorScript == [hex |-> "51024e73", len |-> 4]

\* the key-path taproot script of self.signer.address, 34 bytes
SignerScript == [hex |-> "5120 signer", len |-> 34]

AnchorOutput == [value |-> ANCHOR_AMOUNT, script_pubkey |-> AnchorScript]

ParentTxid(n) == [type |-> "parent", n |-> n]
FundingTxid(n) == [type |-> "funding", n |-> n]
ChildTxid(parent, fee_payer) == [type |-> "child", n |-> <<parent, fee_payer>>]

\* a taproot key-spend input: its witness is one 64-byte signature
KeySpendInput(txid, vout, value) ==
    [previous_output |-> [txid |-> txid, vout |-> vout], value |-> value, witness |-> <<64>>]

\* Transaction::weight: four times the size without witnesses plus the witnesses
BaseSize(tx) ==
    4 + 1 + 41 * Len(tx.input) + 1
      + Total([i \in 1..Len(tx.output) |-> 8 + 1 + tx.output[i].script_pubkey.len]) + 4

WitnessSize(tx) ==
    IF \A i \in 1..Len(tx.input) : tx.input[i].witness = <<>> THEN 0
    ELSE 2 + Total([i \in 1..Len(tx.input) |->
                      1 + Total([k \in 1..Len(tx.input[i].witness) |->
                                   1 + tx.input[i].witness[k]])])

Weight(tx) == 4 * BaseSize(tx) + WitnessSize(tx)

\* what a transaction leaves to the miner
Fee(tx) ==
    Total([i \in 1..Len(tx.input) |-> tx.input[i].value])
      - Total([i \in 1..Len(tx.output) |-> tx.output[i].value])

\* the pre-signed transactions handed to the sender, none paying a fee: the
\* bumpable transaction of the tests, one without an anchor, and one whose first
\* output carries the anchor's amount at another script
Parents ==
    {[txid |-> ParentTxid(1),
      input |-> <<KeySpendInput(ParentTxid(0), 0, 100000)>>,
      output |-> <<[value |-> 100000 - ANCHOR_AMOUNT, script_pubkey |-> SignerScript],
                   AnchorOutput>>],
     [txid |-> ParentTxid(2),
      input |-> <<KeySpendInput(ParentTxid(0), 1, 100000)>>,
      output |-> <<[value |-> 100000, script_pubkey |-> SignerScript]>>],
     [txid |-> ParentTxid(3),
      input |-> <<KeySpendInput(ParentTxid(0), 2, 100000)>>,
      output |-> <<[value |-> ANCHOR_AMOUNT, script_pubkey |-> SignerScript],
                   [value |-> 100000 - 2 * ANCHOR_AMOUNT, script_pubkey |-> SignerScript],
                   AnchorOutput>>]}

\* the rates an estimate carries
FeeRates == {5}

\* what estimate_smart_fee answers: an RPC error, an estimate that reports
\* errors, an estimate with a rate
Estimates ==
    {[ok |-> FALSE, errors |-> FALSE, fee_rate |-> <<>>],
     [ok |-> TRUE, errors |-> TRUE, fee_rate |-> <<>>]}
    \cup {[ok |-> TRUE, errors |-> FALSE, fee_rate |-> <<r>>] : r \in FeeRates}

Ok(value) == [error |-> "", value |-> value]
Err(error) == [error |-> error, value |-> 0]

\* a get_fee_rate that hands the estimate's errors on
GetFeeRateStrict(estimate) ==
    IF ~estimate.ok THEN Ok(FALLBACK_FEE_RATE)
    ELSE IF estimate.errors THEN Err("FeeEstimationError")
    ELSE Ok(estimate.fee_rate[1])

\* get_fee_rate
GetFeeRate(estimate) ==
    IF ~estimate.ok THEN Ok(FALLBACK_FEE_RATE)
    ELSE IF estimate.errors THEN Ok(FALLBACK_FEE_RATE)
    ELSE Ok(estimate.fee_rate[1])

\* an allocation of the bumped transaction's weight at the rate, once
RequiredAmountOnce(bumped_tx_size, fee_rate) == fee_rate * bumped_tx_size

\* calculate_required_amount_for_fee_payer
CalculateRequiredAmountForFeePayer(bumped_tx_size, fee_rate) == fee_rate * 3 * bumped_tx_size

\* find_p2a_anchor: the first output that carries the anchor's amount
FindP2aAnchor(tx) ==
    LET found == {i \in 1..Len(tx.output) : tx.output[i].value = AnchorOutput.value}
    IN IF found = {} THEN Err("P2AAnchorNotFound")
       ELSE Ok([txid |-> tx.txid, vout |-> (CHOOSE i \in found : \A j \in found : i <= j) - 1])

\* create_child_tx: input 0 the anchor, input 1 the fee payer, one output of what
\* the fee leaves; Amount's subtraction panics when the fee exceeds the amount
CreateChildTx(p2a_anchor, fee_payer_outpoint, fee_payer_amount, parent_tx_size, fee_rate) ==
    LET required_fee == fee_rate * (CHILD_TX_SIZE + parent_tx_size)
    IN IF fee_payer_amount < required_fee THEN Err("panic")
       ELSE Ok([txid |-> ChildTxid(p2a_anchor.txid, fee_payer_outpoint.txid),
                input |-> <<[previous_output |-> p2a_anchor, value |-> AnchorOutput.value,
                             witness |-> <<>>],
                            KeySpendInput(fee_payer_outpoint.txid, fee_payer_outpoint.vout,
                                          fee_payer_amount)>>,
                output |-> <<[value |-> fee_payer_amount - required_fee,
                              script_pubkey |-> SignerScript]>>])

Returns(fn, tx, outcome) == [fn |-> fn, tx |-> tx, outcome |-> outcome]

\* create_fee_payer_tx: the rate, the amount, the wallet's payment to the signer's
\* address, the row saved for the bumped transaction; a run funds one transaction
CreateFeePayerTx(tx, estimate, vout) ==
    /\ sender.handler = "running"
    /\ Cardinality(sender.created) < MaxFeePayers
    /\ \A c \in sender.created : c.bumped_txid = tx.txid
    /\ LET fee_rate == GetFeeRate(estimate)
           required_amount == CalculateRequiredAmountForFeePayer(Weight(tx), fee_rate.value)
           outpoint == [txid |-> FundingTxid(Cardinality(sender.created) + 1), vout |-> vout]
       IN IF fee_rate.error # ""
          THEN sender' = [sender EXCEPT !.estimate = <<estimate>>, !.fee_rate = <<fee_rate>>,
                            !.result = Returns("create_fee_payer_tx", tx.txid, fee_rate.error)]
          ELSE sender' = [sender EXCEPT
                            !.estimate = <<estimate>>,
                            !.fee_rate = <<fee_rate>>,
                            !.utxos = @ \cup {[outpoint |-> outpoint,
                                               value |-> required_amount,
                                               script_pubkey |-> SignerScript]},
                            !.fee_payer_txs = @ \cup
                                {[bumped_txid |-> tx.txid,
                                  fee_payer_txid |-> outpoint.txid,
                                  vout |-> outpoint.vout,
                                  script_pubkey |-> SignerScript,
                                  amount |-> required_amount,
                                  is_confirmed |-> FALSE,
                                  blockhash |-> <<>>]},
                            !.created = @ \cup {[bumped_txid |-> tx.txid,
                                                 bumped_tx_size |-> Weight(tx),
                                                 fee_rate |-> fee_rate.value,
                                                 outpoint |-> outpoint]},
                            !.result = Returns("create_fee_payer_tx", tx.txid, "Ok")]
    /\ UNCHANGED <<header_vars, call, mmr, state_vars>>

\* send_tx_with_cpfp: the rows of the bumped transaction, a confirmed one of
\* them, the anchor, the rate, the child, the package handed to submit_package
SendTxWithCpfp(tx, estimate) ==
    /\ sender.handler = "running"
    /\ sender.sends < MaxSends
    /\ LET fee_payer_txs == {r \in sender.fee_payer_txs :
                               r.bumped_txid = tx.txid /\ r.script_pubkey = SignerScript}
           confirmed == {r \in fee_payer_txs : r.is_confirmed}
           p2a_anchor == FindP2aAnchor(tx)
           fee_rate == GetFeeRate(estimate)
           called == [sender EXCEPT !.sends = @ + 1]
           fails(error) == [called EXCEPT !.result = Returns("send_tx_with_cpfp", tx.txid, error)]
       IN IF fee_payer_txs = {} THEN sender' = fails("FeePayerTxNotFound")
          ELSE IF confirmed = {} THEN sender' = fails("ConfirmedFeePayerTxNotFound")
          ELSE IF p2a_anchor.error # "" THEN sender' = fails(p2a_anchor.error)
          ELSE IF fee_rate.error # ""
          THEN sender' = [fails(fee_rate.error) EXCEPT !.estimate = <<estimate>>,
                                                       !.fee_rate = <<fee_rate>>]
          ELSE \E r \in confirmed :
                 LET child_tx == CreateChildTx(p2a_anchor.value,
                                               [txid |-> r.fee_payer_txid, vout |-> r.vout],
                                               r.amount, Weight(tx), fee_rate.value)
                     rated == [called EXCEPT !.estimate = <<estimate>>,
                                             !.fee_rate = <<fee_rate>>]
                 IN IF child_tx.error # ""
                    THEN sender' = [rated EXCEPT !.result =
                                      Returns("send_tx_with_cpfp", tx.txid, child_tx.error)]
                    ELSE sender' = [rated EXCEPT
                                      !.submitted = @ \cup {[tx |-> tx,
                                                             child_tx |-> child_tx.value,
                                                             fee_rate |-> fee_rate.value]},
                                      !.result = Returns("send_tx_with_cpfp", tx.txid, "Ok")]
    /\ UNCHANGED <<header_vars, call, mmr, state_vars>>

\* the funding transactions no block of the chain holds
Unmined ==
    {u.outpoint.txid : u \in sender.utxos}
      \ UNION {sender.blocks[i].txdata :
                 i \in {j \in 1..Len(sender.blocks) : ~sender.blocks[j].reorged}}

\* apply_block: confirm_fee_payer_tx for every transaction of the block
ApplyBlock(fee_payer_txs, block) ==
    {IF r.fee_payer_txid \in block.txdata
     THEN [r EXCEPT !.is_confirmed = TRUE, !.blockhash = <<block.block_hash>>]
     ELSE r : r \in fee_payer_txs}

\* apply_reorg
ApplyReorg(fee_payer_txs, reorg_block) == fee_payer_txs

\* bitcoin_syncer_event_handler receives NewBlocks for a block the node connected
NewBlocks(txdata) ==
    /\ sender.handler = "running"
    /\ Len(sender.blocks) < MaxSyncerBlocks
    /\ txdata \subseteq Unmined
    /\ txdata # {}
    /\ LET block == [block_hash |-> Len(sender.blocks) + 1, txdata |-> txdata,
                     reorged |-> FALSE]
       IN sender' = [sender EXCEPT !.blocks = Append(@, block),
                                   !.fee_payer_txs = ApplyBlock(@, block)]
    /\ UNCHANGED <<header_vars, call, mmr, state_vars>>

\* bitcoin_syncer_event_handler receives ReorgedBlocks for the block at the tip
ReorgedBlocks ==
    /\ sender.handler = "running"
    /\ \E i \in 1..Len(sender.blocks) :
          /\ ~sender.blocks[i].reorged
          /\ \A j \in (i + 1)..Len(sender.blocks) : sender.blocks[j].reorged
          /\ sender' = [sender EXCEPT !.blocks[i].reorged = TRUE,
                                      !.fee_payer_txs = ApplyReorg(@, sender.blocks[i].block_hash)]
    /\ UNCHANGED <<header_vars, call, mmr, state_vars>>

\* bitcoin_syncer_event_handler receives NewBlocksWithTxs and returns its error,
\* which ends the task the sender runs in
NewBlocksWithTxs ==
    /\ sender.handler = "running"
    /\ sender' = [sender EXCEPT !.handler = "stopped"]
    /\ UNCHANGED <<header_vars, call, mmr, state_vars>>

SenderInit ==
    /\ HeaderInit
    /\ network = "mainnet"
    /\ overflow_checks = FALSE
    /\ call = NoCall
    /\ mmr = NoLeaves
    /\ StatesIdle

SenderNext ==
    \/ \E tx \in Parents, estimate \in Estimates :
          CreateFeePayerTx(tx, estimate, Cardinality(sender.created) % 2)
    \/ \E tx \in Parents, estimate \in Estimates : SendTxWithCpfp(tx, estimate)
    \/ \E txdata \in SUBSET Unmined : NewBlocks(txdata)
    \/ ReorgedBlocks
    \/ NewBlocksWithTxs

SpecSender == SenderInit /\ [][SenderNext]_vars

\* ------------------------------------------------------------------ builder
\* constants.rs
MIN_TAPROOT_AMOUNT == 330

\* the operators' keys and collateral funding outpoints; amounts that pay the
\* reimburse connectors of every round built here
OperatorDatas ==
    {[xonly_pk |-> op,
      collateral_funding_outpoint |-> OutPoint(FundingTxid(op), op)] : op \in Operators}
CollateralAmounts == {MIN_TAPROOT_AMOUNT * 10, MIN_TAPROOT_AMOUNT * 20}

\* create_taproot_address(&[], Some(operator_xonly_pk), network)
OperatorScript(operator_xonly_pk) == [key |-> operator_xonly_pk, scripts |-> <<>>]

\* the kickoff connector's two leaves: the Winternitz commitment to the block
\* hash under the round's k-th key, and the one block timelock
KickoffScript(operator_xonly_pk, pubkey) ==
    [key |-> "unspendable",
     scripts |-> <<[kind |-> "WinternitzCommit", pubkey |-> pubkey,
                    xonly_pk |-> operator_xonly_pk],
                   [kind |-> "TimelockScript", blocks |-> 1]>>]

\* KickoffWinternitzKeys: the keys of one round, by round and kickoff index
KeysFor(idx, num_kickoffs) == [k \in 1..num_kickoffs |-> <<idx, k - 1>>]

\* Transaction::compute_txid: the inputs' outpoints and sequences and the
\* outputs, no witness
ComputeTxid(txhandler) ==
    [input |-> [i \in DOMAIN txhandler.input |->
                   [previous_output |-> txhandler.input[i].previous_output,
                    sequence |-> txhandler.input[i].sequence]],
     output |-> txhandler.output]

\* TxHandler::get_spendable_output: the outpoint and the TxOut of output idx
GetSpendableOutput(txhandler, idx) ==
    [previous_output |-> OutPoint(ComputeTxid(txhandler), idx),
     prevout |-> txhandler.output[idx + 1]]

\* TxHandlerBuilder::add_input
TxIn(spendable, spend_path, sequence) ==
    [previous_output |-> spendable.previous_output, prevout |-> spendable.prevout,
     spend_path |-> spend_path, sequence |-> sequence]

\* create_sequential_collateral_txhandler: spends the given outpoint by key;
\* pays the whole amount to the operator, one connector per kickoff, the anchor
CreateSequentialCollateralTxhandler(operator_xonly_pk, input_outpoint, input_amount, num_kickoffs, pubkeys) ==
    [transaction_type |-> "SequentialCollateral",
     input |-> <<TxIn([previous_output |-> input_outpoint,
                       prevout |-> [value |-> input_amount,
                                    script_pubkey |-> OperatorScript(operator_xonly_pk)]],
                      "KeySpend", "DEFAULT_SEQUENCE")>>,
     output |-> <<[value |-> input_amount,
                   script_pubkey |-> OperatorScript(operator_xonly_pk)]>>
                \o [k \in 1..num_kickoffs |->
                      [value |-> MIN_TAPROOT_AMOUNT,
                       script_pubkey |-> KickoffScript(operator_xonly_pk, pubkeys[k])]]
                \o <<AnchorOutput>>]

\* create_ready_to_reimburse_txhandler: spends output 0 of the collateral
\* transaction by key and pays its value to the operator
CreateReadyToReimburseTxhandler(sequential_collateral_txhandler, operator_xonly_pk) ==
    LET prevout == GetSpendableOutput(sequential_collateral_txhandler, 0)
    IN [transaction_type |-> "ReadyToReimburse",
        input |-> <<TxIn(prevout, "KeySpend", "DEFAULT_SEQUENCE")>>,
        output |-> <<[value |-> prevout.prevout.value,
                      script_pubkey |-> OperatorScript(operator_xonly_pk)],
                     AnchorOutput>>]

\* create_reimburse_generator_txhandler: spends output 0 of the ready to
\* reimburse transaction after a day; pays the operator what the reimburse
\* connectors leave, one connector per kickoff, the anchor
CreateReimburseGeneratorTxhandler(ready_to_reimburse_txhandler, operator_xonly_pk, num_kickoffs) ==
    LET prevout == GetSpendableOutput(ready_to_reimburse_txhandler, 0)
    IN [transaction_type |-> "ReimburseGenerator",
        input |-> <<TxIn(prevout, "KeySpend", "BLOCKS_PER_DAY")>>,
        output |-> <<[value |-> prevout.prevout.value - MIN_TAPROOT_AMOUNT * num_kickoffs,
                      script_pubkey |-> OperatorScript(operator_xonly_pk)]>>
                   \o [k \in 1..num_kickoffs |->
                         [value |-> MIN_TAPROOT_AMOUNT,
                          script_pubkey |-> OperatorScript(operator_xonly_pk)]]
                   \o <<AnchorOutput>>]

\* create_seq_collat_reimburse_gen_nth_txhandler: the collateral transaction
\* of the funding outpoint, then for each later index the collateral
\* transaction of output 0 of the reimburse generator before it
RECURSIVE CreateSeqCollatReimburseGenNthTxhandler(_, _, _, _, _)
CreateSeqCollatReimburseGenNthTxhandler(operator_xonly_pk, input_outpoint, input_amount, num_kickoffs, index) ==
    LET before == CreateSeqCollatReimburseGenNthTxhandler(
                      operator_xonly_pk, input_outpoint, input_amount, num_kickoffs,
                      index - 1)
        spendable == GetSpendableOutput(before[3], 0)
        seq_collat_txhandler ==
            IF index = 0
            THEN CreateSequentialCollateralTxhandler(
                     operator_xonly_pk, input_outpoint, input_amount, num_kickoffs,
                     KeysFor(0, num_kickoffs))
            ELSE CreateSequentialCollateralTxhandler(
                     operator_xonly_pk, spendable.previous_output, spendable.prevout.value,
                     num_kickoffs, KeysFor(index, num_kickoffs))
        ready_to_reimburse_txhandler ==
            CreateReadyToReimburseTxhandler(seq_collat_txhandler, operator_xonly_pk)
    IN <<seq_collat_txhandler, ready_to_reimburse_txhandler,
         CreateReimburseGeneratorTxhandler(ready_to_reimburse_txhandler, operator_xonly_pk,
                                           num_kickoffs)>>

\* what a request leaves behind: nothing before the first
NoRequest == [fn |-> "none"]

\* create_txhandlers, the collateral chain of the request: the round and its
\* ready to reimburse transaction, from the previous ready to reimburse
\* transaction if the caller hands one and from the funding outpoint if not,
\* then the next round from output 0 of the ready to reimburse transaction.
\* The round builders are operator_collateral.rs's, which take the same
\* arguments
CreateTxhandlers(operator_data, amount, num_kickoffs, round_idx, prev_ready_to_reimburse) ==
    LET nth == CreateSeqCollatReimburseGenNthTxhandler(
                   operator_data.xonly_pk, operator_data.collateral_funding_outpoint,
                   amount, num_kickoffs, round_idx)
        given == GetSpendableOutput(prev_ready_to_reimburse[1], 0)
        round_txhandler ==
            IF prev_ready_to_reimburse # <<>>
            THEN CreateSequentialCollateralTxhandler(
                     operator_data.xonly_pk, given.previous_output, given.prevout.value,
                     num_kickoffs, KeysFor(round_idx, num_kickoffs))
            ELSE nth[1]
        ready_to_reimburse_txhandler ==
            IF prev_ready_to_reimburse # <<>>
            THEN CreateReadyToReimburseTxhandler(round_txhandler, operator_data.xonly_pk)
            ELSE nth[2]
        spendable == GetSpendableOutput(ready_to_reimburse_txhandler, 0)
    IN [Round |-> round_txhandler,
        ReadyToReimburse |-> ready_to_reimburse_txhandler,
        NextRound |-> CreateSequentialCollateralTxhandler(
                          operator_data.xonly_pk, spendable.previous_output,
                          spendable.prevout.value, num_kickoffs,
                          KeysFor(round_idx + 1, num_kickoffs))]

\* a request for the handlers of a round: the first of a stream hands no
\* previous transaction, a later one hands the ready to reimburse transaction
\* of the request before it
RequestTxhandlers(operator_data, amount, num_kickoffs, round_idx, streamed) ==
    /\ call.fn \in {"none", "create_txhandlers"}
    /\ round_idx <= MaxRound
    /\ streamed =>
          /\ call.fn = "create_txhandlers"
          /\ call.operator_data = operator_data
          /\ call.amount = amount
          /\ call.num_kickoffs = num_kickoffs
          /\ call.round_idx + 1 = round_idx
    /\ ~streamed => call.fn = "none"
    /\ LET prev == IF streamed THEN <<call.txhandlers.ReadyToReimburse>> ELSE <<>>
       IN call' = [fn |-> "create_txhandlers", operator_data |-> operator_data,
                   amount |-> amount, num_kickoffs |-> num_kickoffs,
                   round_idx |-> round_idx, streamed |-> streamed,
                   before |-> IF streamed THEN <<call.txhandlers>> ELSE <<>>,
                   txhandlers |-> CreateTxhandlers(operator_data, amount, num_kickoffs,
                                                   round_idx, prev)]
    /\ UNCHANGED <<header_vars, mmr, state_vars, sender>>

\* the handlers of a request in the order of the map that holds them, each
\* with its signature slots by kind: the signer's own key, a signature the
\* database keeps for the deposit, the preimage of a challenge
\* acknowledgement, the Winternitz commitment of the kickoff
RequestHandlers ==
    <<[tx_type |-> "Round", slots |-> <<"own">>],
      [tx_type |-> "Kickoff", slots |-> <<"winternitz">>],
      [tx_type |-> "OperatorChallengeAck", slots |-> <<"preimage">>],
      [tx_type |-> "Challenge", slots |-> <<"nofn">>],
      [tx_type |-> "Reimburse", slots |-> <<"nofn", "own">>]>>

\* the slots get_deposit_signatures can hold a signature for
DepositSlots ==
    UNION {{<<RequestHandlers[i].tx_type, s>> :
               s \in {t \in DOMAIN RequestHandlers[i].slots :
                         RequestHandlers[i].slots[t] = "nofn"}} :
           i \in DOMAIN RequestHandlers}

\* Actor::tx_sign_and_fill_sigs: the slots signed with the signer's key and
\* those the signatures of the deposit fill
TxSignAndFillSigs(txhandler, owner, signatures) ==
    {s \in DOMAIN txhandler.slots :
        \/ txhandler.slots[s] = "own" /\ owner
        \/ txhandler.slots[s] = "nofn" /\ <<txhandler.tx_type, s>> \in signatures}

\* Actor::tx_sign_preimage, Actor::tx_sign_winternitz: the slots of the kind
TxSignKind(txhandler, kind) == {s \in DOMAIN txhandler.slots : txhandler.slots[s] = kind}

\* TxHandler::promote: Checked when no slot is left open
Promote(txhandler, filled) ==
    IF filled = DOMAIN txhandler.slots
    THEN Ok([tx_type |-> txhandler.tx_type, witness |-> filled])
    ELSE Err("MissingWitnessData")

\* the body of create_and_sign_all_txs's loop for one handler: the slots
\* filled, or the error that ends the request
SignOne(txhandler, owner, signatures, block_hash, preimage, winternitz) ==
    LET sigs == TxSignAndFillSigs(txhandler, owner, signatures)
        ack == IF txhandler.tx_type = "OperatorChallengeAck" /\ preimage
               THEN TxSignKind(txhandler, "preimage") ELSE {}
        kickoff == IF txhandler.tx_type = "Kickoff" /\ block_hash /\ winternitz
                   THEN TxSignKind(txhandler, "winternitz") ELSE {}
    IN IF txhandler.tx_type = "OperatorChallengeAck" /\ ~preimage
       THEN Err("generate_preimage_from_path")
       ELSE IF txhandler.tx_type = "Kickoff" /\ block_hash /\ ~winternitz
       THEN Err("tx_sign_winternitz")
       ELSE Ok(sigs \cup ack \cup kickoff)

\* create_and_sign_all_txs from the handlers on: every handler is signed and
\* promoted in turn, a Checked one is encoded and pushed, one that is not is
\* passed over; an error of the preimage or of the Winternitz signature
\* returns from the function
RECURSIVE SignAll(_, _, _, _, _, _, _)
SignAll(txhandlers, signed_txs, owner, signatures, block_hash, preimage, winternitz) ==
    IF txhandlers = <<>> THEN Ok(signed_txs)
    ELSE LET txhandler == Head(txhandlers)
             filled == SignOne(txhandler, owner, signatures, block_hash, preimage,
                               winternitz)
             checked_txhandler == Promote(txhandler, filled.value)
         IN IF filled.error # "" THEN Err(filled.error)
            ELSE SignAll(Tail(txhandlers),
                         IF checked_txhandler.error = ""
                         THEN Append(signed_txs, <<txhandler.tx_type, checked_txhandler.value>>)
                         ELSE signed_txs,
                         owner, signatures, block_hash, preimage, winternitz)

CreateAndSignAllTxs(owner, signatures, block_hash, preimage, winternitz) ==
    /\ call.fn = "none"
    /\ call' = [fn |-> "create_and_sign_all_txs", owner |-> owner,
                signatures |-> signatures, block_hash |-> block_hash,
                preimage |-> preimage, winternitz |-> winternitz,
                result |-> SignAll(RequestHandlers, <<>>, owner, signatures, block_hash,
                                   preimage, winternitz)]
    /\ UNCHANGED <<header_vars, mmr, state_vars, sender>>

BuilderInit ==
    /\ HeaderInit
    /\ network = "mainnet"
    /\ overflow_checks = FALSE
    /\ call = NoRequest
    /\ mmr = NoLeaves
    /\ StatesIdle

BuilderNext ==
    \/ \E operator_data \in OperatorDatas, amount \in CollateralAmounts,
          num_kickoffs \in 1..NUM_KICKOFFS_PER_ROUND, round_idx \in 0..MaxRound,
          streamed \in BOOLEAN :
          RequestTxhandlers(operator_data, amount, num_kickoffs, round_idx, streamed)
    \/ \E owner \in BOOLEAN, signatures \in SUBSET DepositSlots, block_hash \in BOOLEAN,
          preimage \in BOOLEAN, winternitz \in BOOLEAN :
          CreateAndSignAllTxs(owner, signatures, block_hash, preimage, winternitz)

SpecBuilder == BuilderInit /\ [][BuilderNext]_vars

\* ------------------------------------------------------- the operator's tables
\* the deposit and the operator asked about, and another of each
DepositIds == {1, 2}
OperatorXonlyPks == {"operator", "other operator"}

\* the rows of deposit_signatures offered: every kickoff connector of every
\* round for the first deposit and operator, one row for each other pairing
SignatureRows ==
    {[deposit_id |-> 1, operator_xonly_pk |-> "operator", round_idx |-> r, kickoff_idx |-> k] :
        r \in 0..MaxRound, k \in 1..NUM_KICKOFFS_PER_ROUND}
    \cup {[deposit_id |-> 2, operator_xonly_pk |-> "operator", round_idx |-> 0, kickoff_idx |-> 1],
          [deposit_id |-> 1, operator_xonly_pk |-> "other operator", round_idx |-> 0,
           kickoff_idx |-> 1]}

\* the tables the three functions read and write, and the query asked last;
\* current_round_index holds the row with id = 1 or no row
Tables(deposit_signatures, current_round_index) ==
    [fn |-> "none",
     deposit_signatures |-> deposit_signatures,
     used_kickoff_connectors |-> {},
     current_round_index |-> current_round_index,
     deposit_id |-> 0,
     operator_xonly_pk |-> "",
     result |-> <<>>]

\* a query that does not look at used_kickoff_connectors
SelectSigned(tables, deposit_id, operator_xonly_pk) ==
    {ds \in tables.deposit_signatures :
        /\ ds.deposit_id = deposit_id
        /\ ds.operator_xonly_pk = operator_xonly_pk
        /\ \E cr \in {tables.current_round_index[i] : i \in 1..Len(tables.current_round_index)} :
              ds.round_idx >= cr}

\* the rows the query of get_unused_and_signed_kickoff_connector selects,
\* before ORDER BY and LIMIT
SelectUnusedAndSigned(tables, deposit_id, operator_xonly_pk) ==
    {ds \in tables.deposit_signatures :
        /\ ds.deposit_id = deposit_id
        /\ ds.operator_xonly_pk = operator_xonly_pk
        /\ \E cr \in {tables.current_round_index[i] : i \in 1..Len(tables.current_round_index)} :
              ds.round_idx >= cr
        /\ ~\E ukc \in tables.used_kickoff_connectors :
              /\ ukc.round_idx = ds.round_idx
              /\ ukc.kickoff_connector_idx = ds.kickoff_idx}

\* a LIMIT 1 without the ORDER BY: any of the rows
AnyRow(rows) ==
    IF rows = {} THEN {<<>>}
    ELSE {<<<<ds.round_idx, ds.kickoff_idx>>>> : ds \in rows}

\* ORDER BY ds.round_idx ASC LIMIT 1 with fetch_optional: no row, or one of the
\* rows of the lowest round
FirstByRound(rows) ==
    IF rows = {} THEN {<<>>}
    ELSE {<<<<ds.round_idx, ds.kickoff_idx>>>> :
            ds \in {d \in rows : \A e \in rows : d.round_idx <= e.round_idx}}

\* set_kickoff_connector_as_used: the INSERT
SetKickoffConnectorAsUsed(round_idx, kickoff_connector_idx) ==
    /\ call.fn # "get_unused_and_signed_kickoff_connector"
    /\ call' = [call EXCEPT
                  !.used_kickoff_connectors =
                      @ \cup {[round_idx |-> round_idx,
                               kickoff_connector_idx |-> kickoff_connector_idx]}]
    /\ UNCHANGED <<header_vars, mmr, state_vars, sender>>

\* update_current_round_index: the UPDATE of the row with id = 1
UpdateCurrentRoundIndex(round_idx) ==
    /\ call.fn # "get_unused_and_signed_kickoff_connector"
    /\ call' = [call EXCEPT
                  !.current_round_index = [i \in 1..Len(@) |-> round_idx]]
    /\ UNCHANGED <<header_vars, mmr, state_vars, sender>>

\* get_unused_and_signed_kickoff_connector: Some((round_idx, kickoff_idx)) as a
\* sequence of one pair, None as the empty sequence
GetUnusedAndSignedKickoffConnector(deposit_id, operator_xonly_pk) ==
    /\ call.fn # "get_unused_and_signed_kickoff_connector"
    /\ \E result \in FirstByRound(SelectUnusedAndSigned(call, deposit_id, operator_xonly_pk)) :
          call' = [call EXCEPT !.fn = "get_unused_and_signed_kickoff_connector",
                               !.deposit_id = deposit_id,
                               !.operator_xonly_pk = operator_xonly_pk,
                               !.result = result]
    /\ UNCHANGED <<header_vars, mmr, state_vars, sender>>

DatabaseInit ==
    /\ HeaderInit
    /\ network = "mainnet"
    /\ overflow_checks = FALSE
    /\ \E deposit_signatures \in SUBSET SignatureRows :
          /\ Cardinality(deposit_signatures) <= MaxSigned
          /\ \E current_round_index \in {<<>>, <<0>>} :
                call = Tables(deposit_signatures, current_round_index)
    /\ mmr = NoLeaves
    /\ StatesIdle

DatabaseNext ==
    \/ \E round_idx \in 0..MaxRound, kickoff_connector_idx \in 1..NUM_KICKOFFS_PER_ROUND :
          SetKickoffConnectorAsUsed(round_idx, kickoff_connector_idx)
    \/ \E round_idx \in 0..MaxRound : UpdateCurrentRoundIndex(round_idx)
    \/ \E deposit_id \in DepositIds, operator_xonly_pk \in OperatorXonlyPks :
          GetUnusedAndSignedKickoffConnector(deposit_id, operator_xonly_pk)

SpecDatabase == DatabaseInit /\ [][DatabaseNext]_vars

\* ------------------------------------------------------------------ properties
\* the header accepted last by the running proof
LastHeader == batch[Len(batch)]
Accepted == pc = "applying" /\ batch # <<>>
\* the loop stops on the header in the current state
Rejects(block_header) ==
    ~ApplyOne(chain_state, loc, block_header, network, overflow_checks).ok
\* the reversed hash read as a big-endian integer
HashValue(hash) == FromBeBytes(Reverse(hash))
\* the condition of the testnet4 minimum-difficulty exception for a header offered
\* in the current state
ExceptionApplies(block_header) ==
    /\ IS_TESTNET4(network)
    /\ block_header.time > loc.last_block_time + 1200
    /\ NextHeight(chain_state.block_height) % BLOCKS_PER_EPOCH # 0
\* what the loop selects for a header offered in the current state
Selected(block_header) ==
    SelectTarget([chain_state EXCEPT !.block_height = NextHeight(@)], loc, block_header,
                 network, overflow_checks)
TargetInForce(block_header) == Selected(block_header).target_to_use
UsesException(block_header) == Selected(block_header).exception
\* m is the median of the 11 values: at most 5 are below it, at least 6 not above
IsMedian(m, arr) ==
    /\ \E i \in 1..PREV_TIMESTAMPS : arr[i] = m
    /\ Cardinality({i \in 1..PREV_TIMESTAMPS : arr[i] < m}) <= 5
    /\ Cardinality({i \in 1..PREV_TIMESTAMPS : arr[i] <= m}) >= 6
MedianOf(arr) == CHOOSE m \in {arr[i] : i \in 1..PREV_TIMESTAMPS} : IsMedian(m, arr)

\* C1: a header is accepted only if its prev_block_hash equals the best_block_hash
\* of the chain state at the moment it is processed; a header with another
\* prev_block_hash stops the circuit.
C1_Continuity ==
    /\ Accepted => LastHeader.prev_block_hash = last.before.best_block_hash
    /\ pc = "applying" =>
         \A h \in Headers :
            h.prev_block_hash # chain_state.best_block_hash => Rejects(h)
\* the second header of a batch, chained to the hash of the first
C1_Witness ==
    /\ Accepted
    /\ Len(batch) = 2
    /\ LastHeader.prev_block_hash = ComputeBlockHash(batch[1])
    /\ LastHeader.prev_block_hash # ZeroBytes

\* C2: a header is accepted only if its reversed double hash, read as a big-endian
\* integer, is at most the target in force for that header; equality is accepted
\* and a greater hash stops the circuit.
C2_ProofOfWork ==
    /\ Accepted => HashValue(last.hash) <= FromBeBytes(last.target_to_use)
    /\ pc = "applying" =>
         \A h \in Headers :
            HashValue(ComputeBlockHash(h)) > FromBeBytes(TargetInForce(h)) => Rejects(h)
\* a header whose hash equals the target has been accepted
C2_Witness ==
    /\ Accepted
    /\ HashValue(last.hash) = FromBeBytes(last.target_to_use)
    /\ last.hash = ComputeBlockHash(LastHeader)

\* C3: outside the testnet4 exception an accepted header has bits equal to max_bits
\* on regtest and to the current_target_bits of the chain state otherwise; other
\* bits stop the circuit.
C3_Bits ==
    /\ (Accepted /\ ~last.exception) =>
         LastHeader.bits = IF IS_REGTEST(network)
                           THEN MaxBits(network)
                           ELSE last.before.current_target_bits
    /\ pc = "applying" =>
         \A h \in Headers :
            (/\ ~UsesException(h)
             /\ h.bits # IF IS_REGTEST(network)
                         THEN MaxBits(network)
                         ELSE chain_state.current_target_bits)
            => Rejects(h)
\* a header accepted off regtest with a target below the maximum
C3_Witness ==
    /\ Accepted
    /\ ~IS_REGTEST(network)
    /\ ~last.exception
    /\ LastHeader.bits = last.before.current_target_bits
    /\ LastHeader.bits # MaxBits(network)

\* C4: an accepted header has a time strictly greater than the median (the 6th
\* smallest) of prev_11_timestamps as they were before it; validate_timestamp(t, p)
\* is t > median(p), and a time at or below the median stops the circuit.
C4_MedianTimePast ==
    /\ Accepted => LastHeader.time > MedianOf(last.before.prev_11_timestamps)
    /\ pc = "applying" =>
         \A h \in Headers :
            /\ ValidateTimestamp(h.time, chain_state.prev_11_timestamps)
                 = (h.time > MedianOf(chain_state.prev_11_timestamps))
            /\ h.time <= MedianOf(chain_state.prev_11_timestamps) => Rejects(h)
\* a header accepted over timestamps that are not all equal and not in order
C4_Witness ==
    /\ Accepted
    /\ LET p == last.before.prev_11_timestamps
       IN /\ p[1] > p[PREV_TIMESTAMPS]
          /\ LastHeader.time = MedianOf(p) + 1

Clamp(x, lo, hi) == IF x < lo THEN lo ELSE IF x > hi THEN hi ELSE x
Min(a, b) == IF a <= b THEN a ELSE b
LastOutput == journal[Len(journal)]

\* C5: off regtest, after the header at a height with height mod 2016 = 2015 is
\* accepted, current_target_bits is the compact form of
\* min(old_target * clamp(header.time - epoch_start_time, EXPECTED / 4, EXPECTED * 4)
\* / EXPECTED, max_target), old_target being the expansion of current_target_bits
\* before the header; the new target never exceeds max_target.
C5_Retarget ==
    (Accepted /\ ~IS_REGTEST(network)
       /\ last.height % BLOCKS_PER_EPOCH = BLOCKS_PER_EPOCH - 1)
    => LET E == EXPECTED_EPOCH_TIMESPAN(network)
           old_target == FromBeBytes(BitsToTarget(last.before.current_target_bits))
           timespan == Clamp(LastHeader.time - last.before.epoch_start_time, E \div 4, E * 4)
           new_target == Min((old_target * timespan) \div E, MaxTarget(network))
       IN /\ chain_state.current_target_bits = TargetToBits(ToBeBytes(new_target))
          /\ FromBeBytes(BitsToTarget(chain_state.current_target_bits)) <= MaxTarget(network)

\* C6: N valid consecutive headers applied to the genesis ChainState (block_height
\* u32::MAX, best_block_hash zero) give block_height N - 1 and the hash of the
\* N-th header as best_block_hash; the first gives height 0, and no header leaves
\* u32::MAX and the zero hash.
C6_HeightFromGenesis ==
    (genesis = ChainStateNew(network) /\ pc \in {"applying", "idle"}
       /\ (journal = <<>> => pc = "applying"))
    => LET headers == chain_headers \o batch
           N == Len(headers)
           state == IF pc = "idle" THEN LastOutput.chain_state ELSE chain_state
       IN IF N = 0
          THEN state.block_height = U32MAX /\ state.best_block_hash = ZeroBytes
          ELSE state.block_height = N - 1
               /\ state.best_block_hash = ComputeBlockHash(headers[N])
\* an output over two headers from the genesis ChainState
C6_Witness ==
    /\ genesis = ChainStateNew(network)
    /\ pc = "idle"
    /\ Len(chain_headers) = 2
    /\ LastOutput.chain_state.block_height = 1
    /\ LastOutput.chain_state.best_block_hash = ComputeBlockHash(chain_headers[2])

\* C7: for every split of the proved headers into a first proof from genesis and a
\* second on top of its output, the output is the one of a single proof over all
\* the headers: the whole chain_state, genesis_state_hash and method_id.
C7_Recursion ==
    (pc = "idle" /\ journal # <<>>)
    => LET one == ApplyBlockHeaders(genesis, chain_headers, network, overflow_checks)
       IN /\ one.ok
          /\ LastOutput = [method_id |-> input_method_id,
                           genesis_state_hash |-> ToHash(genesis),
                           chain_state |-> one.self]

\* C8: with PrevProof(p) an output is committed only if p.method_id equals
\* input.method_id and p verifies under that method id; every output carries
\* input.method_id, so the proofs of a chain share one method id.
C8_MethodId ==
    /\ \A k \in 2..Len(journal) : journal[k].method_id = journal[k - 1].method_id
    /\ (pc = "idle" /\ journal # <<>>) => LastOutput.method_id = input_method_id
    /\ (pc = "applying" /\ journal # <<>>) =>
          /\ input_method_id = LastOutput.method_id
          /\ Verify(input_method_id, LastOutput)
          /\ genesis_state_hash = LastOutput.genesis_state_hash
          /\ batch = <<>> => chain_state = LastOutput.chain_state
\* a second output of a chain, on top of a verified first one
C8_Witness ==
    /\ pc = "idle"
    /\ Len(journal) = 2
    /\ journal[2].method_id = IMAGE_ID
    /\ journal[1].method_id = IMAGE_ID

C10_Work ==
    (Accepted /\ ~last.exception)
    => loc.current_work
         = WrappingAdd(last.work_before, Word \div (FromBeBytes(last.target_to_use) + 1))

\* C11: on testnet4 a header whose time is more than 1200 seconds after the time of
\* the previous accepted header and whose height is not a multiple of 2016 is
\* checked against max_target, for this header only, and adds MINIMUM_WORK_TESTNET
\* to the total work; every other testnet4 header, one at a multiple of 2016 after
\* such a gap included, is checked against the normal current target and adds the
\* normal work.
C11_Testnet4Exception ==
    /\ (Accepted /\ IS_TESTNET4(network)) =>
         LET normal == last.locals_before.current_target_bytes
             gap == /\ LastHeader.time > last.locals_before.last_block_time + 1200
                    /\ last.height % BLOCKS_PER_EPOCH # 0
         IN /\ last.target_to_use = IF gap THEN MaxTargetBytes(network) ELSE normal
            /\ loc.current_work
                 = WrappingAdd(last.work_before,
                               IF gap THEN MINIMUM_WORK_TESTNET ELSE CalculateWork(normal))
            /\ last.height % BLOCKS_PER_EPOCH # BLOCKS_PER_EPOCH - 1 =>
                 /\ loc.current_target_bytes = normal
                 /\ chain_state.current_target_bits = last.before.current_target_bits
    /\ (pc = "applying" /\ IS_TESTNET4(network)) =>
         \A h \in Headers :
            (/\ ~ExceptionApplies(h)
             /\ HashValue(ComputeBlockHash(h)) > FromBeBytes(loc.current_target_bytes))
            => Rejects(h)

\* C12: along a chain of proofs every output's genesis_state_hash is the hash of the
\* ChainState given in the Genesis step, taken before any header is applied:
\* Genesis(g) sets it to the hash of g, PrevProof(p) carries p.genesis_state_hash.
C12_GenesisStateHash ==
    /\ \A k \in 1..Len(journal) : journal[k].genesis_state_hash = ToHash(genesis)
    /\ pc = "applying" => genesis_state_hash = ToHash(genesis)
\* a second output of a chain whose first proof applied a header
C12_Witness ==
    /\ Len(journal) = 2
    /\ journal[1].chain_state # genesis
    /\ journal[2].genesis_state_hash = ToHash(genesis)
    /\ journal[2].genesis_state_hash # ToHash(journal[1].chain_state)

\* the compact values an encoder of targets produces: the mantissa's top bit is
\* clear and its top byte is zero only in front of a byte with the top bit set
Canonical(bits) ==
    LET mantissa == bits % MantMod
        top == mantissa \div (Base * Base)
        second == (mantissa \div Base) % Base
    IN /\ top < Base \div 2
       /\ top = 0 => second >= Base \div 2

\* the bits of a well-formed header: a canonical value with all three mantissa
\* bytes inside the word, for a target no network's max_target is below
WellFormedBits(bits) ==
    LET size == bits \div MantMod
    IN /\ Canonical(bits)
       /\ size >= 3
       /\ size <= NBytes + 1
       /\ size = NBytes + 1 => (bits % MantMod) \div (Base * Base) = 0
       /\ FromBeBytes(BitsToTarget(bits)) <= MaxTarget("regtest")

\* C13: for the bits of a well-formed header, a canonical compact value of a
\* target up to the largest max_target, target_to_bits(bits_to_target(bits))
\* is bits again
C13_TargetCodec ==
    (call.fn = "target_codec" /\ call.stage = "back" /\ WellFormedBits(call.bits))
    => call.back = call.bits

\* a round trip through the padded form 00 XX YY and one through a plain form
C13_Witness ==
    /\ call.fn = "target_codec"
    /\ call.stage = "back"
    /\ WellFormedBits(call.bits)
    /\ call.bits = MaxBits("mainnet")
    /\ (call.bits % MantMod) \div (Base * Base) = 0
    /\ call.back = call.bits
    /\ FromBeBytes(call.target) = MaxTarget("mainnet")

\* C14: check_hash_valid is monotone in the target: a hash accepted against
\* target_a is accepted against every target_b with target_a <= target_b
C14_Monotone ==
    (/\ call.fn = "check_hash_valid"
     /\ call.stage = "done"
     /\ call.valid_a
     /\ FromBeBytes(call.target_a) <= FromBeBytes(call.target_b))
    => call.valid_b

\* a hash equal to target_a, whose bytes read in the digest's order are above
\* target_b, is accepted against both
C14_Witness ==
    /\ call.fn = "check_hash_valid"
    /\ call.stage = "done"
    /\ FromBeBytes(Reverse(call.hash)) = FromBeBytes(call.target_a)
    /\ FromBeBytes(call.target_a) < FromBeBytes(call.target_b)
    /\ FromBeBytes(call.hash) > FromBeBytes(call.target_b)
    /\ \E i \in 1..NBytes : call.target_a[i] > call.target_b[i]
    /\ call.valid_a
    /\ call.valid_b

\* the root of the perfect tree over a run of leaves
RECURSIVE MerkleRoot(_)
MerkleRoot(leaves) ==
    IF Len(leaves) = 1 THEN leaves[1]
    ELSE HashPair(MerkleRoot(SubSeq(leaves, 1, Len(leaves) \div 2)),
                  MerkleRoot(SubSeq(leaves, Len(leaves) \div 2 + 1, Len(leaves))))

\* the set bits of size as tree sizes, the lowest first
RECURSIVE SetBits(_, _)
SetBits(size, weight) ==
    IF size = 0 THEN <<>>
    ELSE (IF size % 2 = 1 THEN <<weight>> ELSE <<>>) \o SetBits(size \div 2, 2 * weight)

RECURSIVE SumSeq(_)
SumSeq(seq) == IF seq = <<>> THEN 0 ELSE Head(seq) + SumSeq(Tail(seq))

C16_SameRoot ==
    /\ mmr.native.leaves_count = mmr.guest.size
    /\ GuestRoot(mmr.guest) = NativeRoot(mmr.native)

\* three peaks folded on both sides, the native one keeping eleven nodes
C16_Witness ==
    /\ Len(mmr.leaves) = 7
    /\ Len(mmr.native.nodes) = 3
    /\ Len(mmr.native.nodes[1]) = 7
    /\ Len(mmr.native.nodes[2]) = 3
    /\ Len(NativePeaks(mmr.native)) = 3
    /\ GuestRoot(mmr.guest) = NativeRoot(mmr.native)
    /\ GuestRoot(mmr.guest) # mmr.guest.subroots[1]

\* the machines the manager or a running call holds
Held ==
    {mgr.round_machines[i] : i \in 1..Len(mgr.round_machines)}
    \cup {proc.final_round_machines[i] : i \in 1..Len(proc.final_round_machines)}
    \cup {proc.round_futures[i].machine : i \in 1..Len(proc.round_futures)}
    \cup {proc.saved[i] : i \in 1..Len(proc.saved)}

StatesOf(operator_idx) == {m.state : m \in {h \in Held : h.operator_idx = operator_idx}}

\* the moves of the round state machine
Allowed(a, b) ==
    \/ a.name = "InitialCollateral" /\ b = RoundTx(0, {})
    \/ a.name = "RoundTx" /\ b = ReadyToReimburse(a.round_idx)
    \/ a.name = "ReadyToReimburse" /\ b = RoundTx(a.round_idx + 1, {})

\* a KickoffUtxoUsed handled inside RoundTx, which is no transition
SameRound(a, b) ==
    /\ a.name = "RoundTx"
    /\ b.name = "RoundTx"
    /\ b.round_idx = a.round_idx
    /\ a.used_kickoffs \subseteq b.used_kickoffs

\* C17: a round machine only moves InitialCollateral -> RoundTx{0, {}},
\* RoundTx{idx} -> ReadyToReimburse{idx} and ReadyToReimburse{idx} ->
\* RoundTx{idx + 1, {}}; within RoundTx only used_kickoffs grows; no step of the
\* manager that runs a handler makes any other change
C17_RoundTransitions ==
    [][twin'.active = twin.active =>
         \A op \in Operators :
            \A a \in StatesOf(op) :
               \A b \in StatesOf(op)' : a = b \/ SameRound(a, b) \/ Allowed(a, b)]_vars

\* a machine that went through the whole cycle into its second round
C17_Witness ==
    \E m \in Held :
       /\ m.state = RoundTx(1, {})
       /\ m.current_txid = RoundTxid(m.operator_idx, 1)
       /\ \E d \in mgr.duties : d.operator_idx = m.operator_idx /\ d.round_idx = 0

SameMachines(a, b) ==
    /\ Len(a) = Len(b)
    /\ {a[i] : i \in 1..Len(a)} = {b[i] : i \in 1..Len(b)}

\* C18: process_block_parallel terminates: it re-processes only machines that
\* changed in the pass before, a call that returns Ok stabilised within the 500
\* iterations, and the error is returned after more than 500 iterations and names
\* the states of the machines that were still changing
C18_Stabilisation ==
    /\ proc.iterations <= ITERATION_LIMIT + 1
    /\ (proc.pc = "running" /\ proc.iterations >= 1) =>
          \A i \in 1..Len(proc.round_futures) :
             proc.round_futures[i].from.operator_idx \in proc.changed_last
    /\ (proc.pc = "idle" /\ proc.result = "Ok") => proc.iterations <= ITERATION_LIMIT
    /\ (proc.pc = "idle" /\ proc.result = "NotStabilized") =>
          /\ proc.iterations > ITERATION_LIMIT
          /\ proc.unstable # <<>>

\* C19: a call's result is a function of the machines and the block: every
\* future handles its events in the one order the events themselves fix, and the
\* machines a call returns are those of the run in that order, whatever order the
\* futures ran in
C19_Determinism ==
    /\ \A i \in 1..Len(proc.round_futures) :
          LET future == proc.round_futures[i]
          IN future.events = Canon({future.events[k] : k \in 1..Len(future.events)})
    /\ (proc.pc = "idle" /\ proc.result # "none" /\ mgr.cache.rounds_upto < 0) =>
          LET processed == ProcessRef(proc.before, mgr.cache)
          IN SameMachines(mgr.round_machines,
                          IF processed = <<>> THEN <<>> ELSE processed \o proc.saved)

C21_HeightMonotone ==
    [][/\ twin'.active = twin.active =>
             mgr'.last_processed_block_height >= mgr.last_processed_block_height
       /\ (proc'.pc = "idle" /\ proc'.result = "Ok") =>
             mgr'.last_processed_block_height >= mgr'.cache.block_height]_vars

\* a block processed in several passes, and later processed again for a machine
\* that was added, the height staying at the block's
C21_Witness ==
    /\ proc.pc = "idle"
    /\ proc.result = "Ok"
    /\ proc.saved # <<>>
    /\ proc.iterations >= 1
    /\ mgr.cache.block_height > START_HEIGHT
    /\ mgr.last_processed_block_height = mgr.cache.block_height

\* C22: a manager built by StateManager::new from machines saved at height H has
\* last_processed_block_height = H before it processes its next block
C22_ResumeHeight ==
    (twin.active /\ proc.pc = "idle" /\ proc.result = "none") =>
        mgr.last_processed_block_height = db.block_height

\* the kickoff connectors of its round a block spends for a machine in RoundTx
KickoffsSpent(m, block) ==
    IF m.state.name = "RoundTx"
    THEN {e.idx : e \in {x \in MatchedEvents(m, block) : x.type = "KickoffUtxoUsed"}}
    ELSE {}

\* C30: a block that spends kickoff connectors of a machine's round and does not
\* end the round stabilises: no future holds KickoffUtxoUsed{k} for a machine
\* that has k in used_kickoffs, and the call returns Ok with the machine in its
\* round and the connectors recorded
C30_KickoffStabilises ==
    /\ \A i \in 1..Len(proc.round_futures) :
          LET future == proc.round_futures[i]
          IN future.from.state.name = "RoundTx" =>
                \A k \in 1..Len(future.events) :
                   future.events[k].type = "KickoffUtxoUsed" =>
                      future.events[k].idx \notin future.from.state.used_kickoffs
    /\ (proc.pc = "idle" /\ proc.result # "none") =>
          \A i \in 1..Len(proc.before) :
             LET m == proc.before[i]
                 spent == KickoffsSpent(m, mgr.cache)
             IN (spent # {} /\ \A e \in MatchedEvents(m, mgr.cache) :
                                  e.type = "KickoffUtxoUsed") =>
                   /\ proc.result = "Ok"
                   /\ \E j \in 1..Len(mgr.round_machines) :
                         /\ mgr.round_machines[j].operator_idx = m.operator_idx
                         /\ mgr.round_machines[j].state =
                               RoundTx(m.state.round_idx, m.state.used_kickoffs \cup spent)

\* C23: every package handed to submit_package pays, parent and child together,
\* at least the rate of that submission times the weight of the parent plus the
\* weight of the child that was built
C23_PackageFee ==
    \A p \in sender.submitted :
       Fee(p.tx) + Fee(p.child_tx) >= p.fee_rate * (Weight(p.tx) + Weight(p.child_tx))

\* the rows recorded for a transaction under the signer's script
RecordedFor(txid) ==
    {r \in sender.fee_payer_txs : r.bumped_txid = txid /\ r.script_pubkey = SignerScript}

\* the outputs of a transaction that are P2A anchors
Anchors(tx) == {i \in 1..Len(tx.output) : tx.output[i].script_pubkey = AnchorScript}

\* C24: the child of every submitted package has two inputs, input 0 the one
\* output of the parent it spends, which is the parent's P2A anchor, and input 1
\* a confirmed fee payer recorded for the parent; a call for a transaction with
\* no recorded fee payer, no confirmed one or no anchor returns an error and
\* nothing is submitted for it
C24_AnchorAndFeePayer ==
    /\ \A p \in sender.submitted :
          LET child == p.child_tx
          IN /\ Len(child.input) = 2
             /\ child.input[1].previous_output.txid = p.tx.txid
             /\ child.input[1].previous_output.vout + 1 \in Anchors(p.tx)
             /\ child.input[2].previous_output.txid # p.tx.txid
             /\ \E r \in RecordedFor(p.tx.txid) :
                   /\ r.is_confirmed
                   /\ child.input[2].previous_output =
                         [txid |-> r.fee_payer_txid, vout |-> r.vout]
    /\ sender.result.fn = "send_tx_with_cpfp" =>
          \A tx \in {t \in Parents : t.txid = sender.result.tx} :
             (\/ RecordedFor(tx.txid) = {}
              \/ \A r \in RecordedFor(tx.txid) : ~r.is_confirmed
              \/ Anchors(tx) = {}) =>
                /\ sender.result.outcome \in {"FeePayerTxNotFound",
                                              "ConfirmedFeePayerTxNotFound",
                                              "P2AAnchorNotFound"}
                /\ \A p \in sender.submitted : p.tx.txid # tx.txid

\* C25: every fee payer created is an output of the wallet to the signer's
\* script of exactly three times the bumped weight times the rate obtained at its
\* creation, saved with that amount under the bumped txid and the script
C25_FeePayerAmount ==
    \A c \in sender.created :
       /\ \E u \in sender.utxos :
             /\ u.outpoint = c.outpoint
             /\ u.script_pubkey = SignerScript
             /\ u.value = 3 * c.bumped_tx_size * c.fee_rate
       /\ \E r \in RecordedFor(c.bumped_txid) :
             /\ [txid |-> r.fee_payer_txid, vout |-> r.vout] = c.outpoint
             /\ r.amount = 3 * c.bumped_tx_size * c.fee_rate

\* fee payers of one transaction created at the fallback rate and at an
\* estimated rate
C25_Witness ==
    /\ \E c \in sender.created : c.fee_rate = FALLBACK_FEE_RATE
    /\ \E c \in sender.created : c.fee_rate \in FeeRates /\ c.bumped_tx_size > CHILD_TX_SIZE
    /\ Cardinality(sender.fee_payer_txs) = 2

\* C26: get_fee_rate returns no error: the fallback rate when the smart-fee call
\* failed or the estimate reports errors, the estimated rate otherwise
C26_FeeRateFallback ==
    sender.estimate # <<>> =>
        LET estimate == sender.estimate[1]
            fee_rate == sender.fee_rate[1]
        IN /\ fee_rate.error = ""
           /\ (~estimate.ok \/ estimate.errors) => fee_rate.value = 1
           /\ (estimate.ok /\ ~estimate.errors) => fee_rate.value = estimate.fee_rate[1]

\* a package submitted at the fallback rate after an estimate that reported
\* errors
C26_Witness ==
    /\ sender.estimate # <<>>
    /\ sender.estimate[1].ok
    /\ sender.estimate[1].errors
    /\ sender.result = Returns("send_tx_with_cpfp", ParentTxid(1), "Ok")
    /\ \E p \in sender.submitted : p.fee_rate = FALLBACK_FEE_RATE

\* the blocks of the chain that were not reorged out
ActiveBlocks == {sender.blocks[i] : i \in {j \in 1..Len(sender.blocks) : ~sender.blocks[j].reorged}}

\* C27: while the event handler runs, a fee payer is recorded as confirmed
\* exactly when a block that was reported and not reorged out holds its funding
\* transaction
C27_ConfirmedOnChain ==
    sender.handler = "running" =>
        \A r \in sender.fee_payer_txs :
           r.is_confirmed <=>
              \E block \in ActiveBlocks :
                 /\ r.fee_payer_txid \in block.txdata
                 /\ r.blockhash = <<block.block_hash>>

\* the transaction spends exactly the output vout of the other one
SpendsOutput(txhandler, of, vout) ==
    /\ Len(txhandler.input) = 1
    /\ txhandler.input[1].previous_output = OutPoint(ComputeTxid(of), vout)

\* the ready to reimburse transaction of the round before the request's: the
\* one the caller handed on, or the one a request for that round builds
ReadyToReimburseBefore ==
    IF call.streamed THEN call.before[1].ReadyToReimburse
    ELSE CreateTxhandlers(call.operator_data, call.amount, call.num_kickoffs,
                          call.round_idx - 1, <<>>).ReadyToReimburse

\* C28: in the collateral chain built for a round index, the round of index 0
\* spends the operator's collateral funding outpoint, the ready to reimburse
\* transaction of a round spends output 0 of the round, and the round after
\* spends output 0 of that ready to reimburse transaction
C28_CollateralChain ==
    call.fn = "create_txhandlers" =>
        /\ call.round_idx = 0 =>
              /\ Len(call.txhandlers.Round.input) = 1
              /\ call.txhandlers.Round.input[1].previous_output
                    = call.operator_data.collateral_funding_outpoint
        /\ SpendsOutput(call.txhandlers.ReadyToReimburse, call.txhandlers.Round, 0)
        /\ SpendsOutput(call.txhandlers.NextRound, call.txhandlers.ReadyToReimburse, 0)
        /\ call.round_idx > 0 =>
              SpendsOutput(call.txhandlers.Round, ReadyToReimburseBefore, 0)

\* the handlers of the request no slot of which is open after the signing
Signable ==
    {RequestHandlers[i].tx_type :
        i \in {j \in DOMAIN RequestHandlers :
                  LET filled == SignOne(RequestHandlers[j], call.owner, call.signatures,
                                        call.block_hash, call.preimage, call.winternitz)
                  IN filled.error = "" /\ filled.value = DOMAIN RequestHandlers[j].slots}}

\* C29: create_and_sign_all_txs returns an encoded transaction for the
\* handlers every slot of which is filled and for no other; a handler with
\* an open slot is left out and the request still returns the others
C29_SigningIsolated ==
    call.fn = "create_and_sign_all_txs" =>
        /\ call.result.error = ""
        /\ {call.result.value[i][1] : i \in DOMAIN call.result.value} = Signable
        /\ \A i \in DOMAIN call.result.value :
              call.result.value[i][2].witness
                  = DOMAIN (CHOOSE h \in {RequestHandlers[j] : j \in DOMAIN RequestHandlers} :
                               h.tx_type = call.result.value[i][1]).slots

\* the operators of the machines in a vector, one per machine
OperatorsOf(machines) == [i \in 1..Len(machines) |-> machines[i].operator_idx]

\* C31: when process_block_parallel has returned, with Ok or with an error,
\* the manager holds every machine it held before the call, each exactly once
C31_MachinesKept ==
    (proc.pc = "idle" /\ proc.result # "none") =>
        LET before == OperatorsOf(proc.before \o proc.saved)
            after == OperatorsOf(mgr.round_machines)
        IN /\ Len(after) = Len(before)
           /\ {after[i] : i \in 1..Len(after)} = {before[i] : i \in 1..Len(before)}

\* C32: off regtest a header accepted outside the testnet4 exception was checked
\* against, and weighed with, the expansion of the current_target_bits the
\* state had when the header was applied, also after a retarget inside the batch
C32_TargetFromBits ==
    (Accepted /\ ~IS_REGTEST(network) /\ ~last.exception) =>
        /\ last.target_to_use = BitsToTarget(last.before.current_target_bits)
        /\ last.work_to_add = CalculateWork(BitsToTarget(last.before.current_target_bits))

\* the matchers the claim gives a machine in its state
MatchersOf(m) ==
    LET op == m.operator_idx
        idx == m.state.round_idx
    IN CASE m.state.name = "InitialCollateral" ->
              {<<SpentUtxo(CollateralFundingOutpoint(op)), RoundSent(0)>>}
         [] m.state.name = "RoundTx" ->
              {<<SentTx(ReadyToReimburseTxid(op, idx)), ReadyToReimburseSent(idx)>>}
              \cup {<<SpentUtxo(OutPoint(RoundTxid(op, idx), k)), KickoffUtxoUsed(k)>> :
                      k \in 1..NUM_KICKOFFS_PER_ROUND}
         [] OTHER -> {<<SentTx(RoundTxid(op, idx + 1)), RoundSent(idx + 1)>>}

\* C33: the matchers of a machine are those of the state it is in and no
\* other: in RoundTx{idx} the ReadyToReimburse transaction of the round and
\* the kickoff connectors of its Round transaction, in ReadyToReimburse{idx}
\* the Round transaction of round idx + 1
C33_MatchersOfState == \A m \in Held : m.matchers = MatchersOf(m)

\* the kickoff connectors among the events a future handled
KickoffsOf(events) ==
    {events[k].idx : k \in {j \in 1..Len(events) : events[j].type = "KickoffUtxoUsed"}}

\* C34: when the block that ends a round also spends kickoff connectors of
\* that round, the NewReadyToReimburse duty of the round lists them, in
\* whatever order the machine was handed the events
C34_DutyListsKickoffs ==
    ~twin.active =>
        \A i \in 1..Len(proc.round_futures) :
           LET future == proc.round_futures[i]
               m == future.from
               duties == {d \in mgr.duties : /\ d.operator_idx = m.operator_idx
                                            /\ d.round_idx = m.state.round_idx}
           IN (/\ future.done
               /\ m.state.name = "RoundTx"
               /\ \E k \in 1..Len(future.events) :
                     future.events[k] = ReadyToReimburseSent(m.state.round_idx)) =>
                 /\ duties # {}
                 /\ \A d \in duties :
                       m.state.used_kickoffs \cup KickoffsOf(future.events)
                           \subseteq d.used_kickoffs

\* the headers accepted since the genesis state, committed or not
AcceptedHeaders == chain_headers \o batch

\* the height the k-th of them was accepted at
HeightOfAccepted(k) == (genesis.block_height + k) % U32Mod

\* the accepted headers that begin an epoch
EpochStarts == {k \in 1..Len(AcceptedHeaders) : HeightOfAccepted(k) % BLOCKS_PER_EPOCH = 0}

\* the last element of a nonempty set of numbers
Latest(S) == CHOOSE k \in S : \A j \in S : j <= k

\* C35: off regtest epoch_start_time is the time of the last accepted header
\* at a height that is a multiple of BLOCKS_PER_EPOCH (the value of the genesis
\* state while there is none); on regtest it is never written
C35_EpochStartTime ==
    pc # "panicked" =>
        chain_state.epoch_start_time =
            IF ~IS_REGTEST(network) /\ EpochStarts # {}
            THEN AcceptedHeaders[Latest(EpochStarts)].time
            ELSE genesis.epoch_start_time

\* the first header of an epoch accepted off regtest, and a header after it
C35_Witness ==
    /\ Accepted
    /\ ~IS_REGTEST(network)
    /\ last.height % BLOCKS_PER_EPOCH = 0
    /\ last.height > 0
    /\ chain_state.epoch_start_time = LastHeader.time
    /\ chain_state.epoch_start_time # last.before.epoch_start_time

\* on regtest the first header of the chain is accepted at height 0
C35_WitnessRegtest ==
    /\ Accepted
    /\ IS_REGTEST(network)
    /\ last.height = 0
    /\ LastHeader.time # genesis.epoch_start_time

\* the accepted headers whose height falls on slot i of prev_11_timestamps
AcceptedOnSlot(i) ==
    {k \in 1..Len(AcceptedHeaders) : HeightOfAccepted(k) % PREV_TIMESTAMPS = i}

\* the time of the block at the given height: of the accepted header, or the
\* one the genesis state keeps for a height it has seen
TimeAtHeight(height) ==
    IF height > genesis.block_height
    THEN AcceptedHeaders[height - genesis.block_height].time
    ELSE genesis.prev_11_timestamps[(height % PREV_TIMESTAMPS) + 1]

\* a sequence of numbers as a bag
BagOf(seq) == [v \in {seq[i] : i \in 1..Len(seq)} |-> Cardinality({i \in 1..Len(seq) : seq[i] = v})]

\* C36: a header accepted at height h leaves its time in slot h mod 11 and
\* changes no other slot, so every slot holds the time of the last block at a
\* height of its residue, and after 11 blocks the buffer holds the times of the
\* 11 blocks last accepted
C36_TimestampRing ==
    pc # "panicked" =>
        /\ \A i \in 0..(PREV_TIMESTAMPS - 1) :
              chain_state.prev_11_timestamps[i + 1] =
                  IF AcceptedOnSlot(i) # {}
                  THEN AcceptedHeaders[Latest(AcceptedOnSlot(i))].time
                  ELSE genesis.prev_11_timestamps[i + 1]
        /\ (/\ genesis.block_height >= PREV_TIMESTAMPS - 1
            /\ genesis.block_height + Len(AcceptedHeaders) < U32Mod) =>
              LET height == genesis.block_height + Len(AcceptedHeaders)
              IN BagOf(chain_state.prev_11_timestamps) =
                     BagOf([j \in 1..PREV_TIMESTAMPS |->
                               TimeAtHeight(height - PREV_TIMESTAMPS + j)])

\* two headers accepted after a state that had seen 11 blocks, the second
\* with a time its slot did not hold
C36_Witness ==
    /\ Accepted
    /\ genesis.block_height >= PREV_TIMESTAMPS - 1
    /\ genesis.block_height + Len(AcceptedHeaders) < U32Mod
    /\ Len(AcceptedHeaders) = 2
    /\ LastHeader.time # last.before.prev_11_timestamps[(last.height % PREV_TIMESTAMPS) + 1]
    /\ chain_state.prev_11_timestamps[(last.height % PREV_TIMESTAMPS) + 1] = LastHeader.time

\* C37: off regtest, for every epoch start and every time of the last header
\* of the epoch that passes the median check, a time before the epoch start
\* included, the retarget completes and the timespan it uses is the difference
\* of the two times brought into [EXPECTED / 4, EXPECTED * 4], with no
\* subtraction that underflows
C37_TimespanClamped ==
    /\ pc = "panicked" => panic_msg # "attempt to subtract with overflow"
    /\ (Accepted /\ ~IS_REGTEST(network)
          /\ last.height % BLOCKS_PER_EPOCH = BLOCKS_PER_EPOCH - 1) =>
            LET E == EXPECTED_EPOCH_TIMESPAN(network)
                diff == U32Sub(LastHeader.time, last.before.epoch_start_time, overflow_checks)
            IN /\ diff = LastHeader.time - last.before.epoch_start_time
               /\ ClampTimespan(diff, network) =
                      Clamp(LastHeader.time - last.before.epoch_start_time, E \div 4, E * 4)

\* C38: a save that succeeds has written every dirty machine as it is, and
\* leaves no machine dirty
C38_SaveResetsDirty ==
    [][(~db.saved /\ db'.saved) =>
          /\ Len(db'.round_machines) = Len(mgr.round_machines)
          /\ \A i \in 1..Len(mgr.round_machines) :
                mgr.round_machines[i].dirty =>
                    db'.round_machines[i] = ToJson(mgr.round_machines[i])
          /\ \A i \in 1..Len(mgr'.round_machines) : ~mgr'.round_machines[i].dirty]_vars

\* what of a machine is persisted, the flag aside
Content(m) == [operator_idx |-> m.operator_idx, state |-> m.state, current_txid |-> m.current_txid]

\* the copies of the machine of an operator in the last save
SavedCopies(operator_idx) ==
    {db.live[j] : j \in {i \in 1..Len(db.live) : db.live[i].operator_idx = operator_idx}}

Eligible ==
    {ds \in call.deposit_signatures :
        /\ ds.deposit_id = call.deposit_id
        /\ ds.operator_xonly_pk = call.operator_xonly_pk
        /\ call.current_round_index # <<>>
        /\ ds.round_idx >= call.current_round_index[1]
        /\ [round_idx |-> ds.round_idx, kickoff_connector_idx |-> ds.kickoff_idx]
              \notin call.used_kickoff_connectors}

\* C40: after any calls of set_kickoff_connector_as_used and
\* update_current_round_index, the pair get_unused_and_signed_kickoff_connector
\* returns is signed for the deposit and the operator, is not recorded as used,
\* is of no round before the current round index, and no eligible pair is of a
\* lower round; it returns none only when no pair is eligible
C40_UnusedConnector ==
    /\ (call.fn = "get_unused_and_signed_kickoff_connector" /\ call.result = <<>>) =>
          Eligible = {}
    /\ (call.fn = "get_unused_and_signed_kickoff_connector" /\ call.result # <<>>) =>
        LET round_idx == call.result[1][1]
            kickoff_idx == call.result[1][2]
        IN /\ [round_idx |-> round_idx, kickoff_connector_idx |-> kickoff_idx]
                 \notin call.used_kickoff_connectors
           /\ call.current_round_index # <<>>
           /\ round_idx >= call.current_round_index[1]
           /\ \E ds \in Eligible : ds.round_idx = round_idx /\ ds.kickoff_idx = kickoff_idx
           /\ \A ds \in Eligible : round_idx <= ds.round_idx
\* a pair returned while a pair of a lower round is signed but used, another
\* is of a round before the current one and a third is of a later round
C40_Witness ==
    /\ call.fn = "get_unused_and_signed_kickoff_connector"
    /\ call.result # <<>>
    /\ call.current_round_index # <<>>
    /\ call.current_round_index[1] > 0
    /\ \E ds \in call.deposit_signatures :
          /\ ds.deposit_id = 1 /\ ds.operator_xonly_pk = "operator"
          /\ ds.round_idx = call.result[1][1]
          /\ ds.kickoff_idx # call.result[1][2]
          /\ [round_idx |-> ds.round_idx, kickoff_connector_idx |-> ds.kickoff_idx]
                \in call.used_kickoff_connectors
====
